---------------------------- MODULE Spec2Model ----------------------------
(***************************************************************************)
(* A model of Decent Injection's scope (src/lib/scope.js): the service     *)
(* registry of a scope, the singleton cache with its walk of the parent    *)
(* chain, the instantiator, the serial asynchronous callService chain, and *)
(* the lifecycle functions and their executions.                           *)
(*                                                                         *)
(* JavaScript objects are modelled by identity: a scope object is a number *)
(* of ScopeIds, a service class (descriptor) a name of Descs, an array of  *)
(* service classes an index into arr (arrays are shared by reference, as   *)
(* the shallow copy of scope() shares them), and a constructed instance an *)
(* index into heap, which is also the log of the constructor calls.        *)
(***************************************************************************)
EXTENDS Integers, Sequences, FiniteSets, TLC

---------------------------------------------------------------------------
(* Bounds of the model. *)

\* The number of client operations (register, require, getServices,
\* makeSubScope, scope, callService, lifecycle and the calls of the
\* functions it returns) of one behaviour.
MaxOps == 4

\* The number of constructor calls of one behaviour.
MaxInst == 4

\* The number of callService chains and of executions of lifecycle
\* functions of one behaviour.
MaxChains == 2

---------------------------------------------------------------------------
(* Values. *)

Undef == [k |-> "undef", d |-> "", n |-> 0]
Null == [k |-> "null", d |-> "", n |-> 0]
\* a service class (a constructor function or a plain object)
DescV(d) == [k |-> "desc", d |-> d, n |-> 0]
\* a scope object
ScopeV(s) == [k |-> "scope", d |-> "", n |-> s]
\* the n-th object built by a constructor call, of class d
InstV(d, n) == [k |-> "inst", d |-> d, n |-> n]
\* an options object
OptV(o) == [k |-> "opt", d |-> o, n |-> 0]

\* JavaScript truthiness of a value
Truthy(v) == v.k \notin {"undef", "null"}

ScopeIds == {1, 2, 3}
NoScope == 0

\* Scope names and service names are keys of the same services map.
ScopeNames == {"", "o", "i"}
ServiceNames == {"a", "b", "toString"}
Names == ScopeNames \cup ServiceNames

\* The names every services map inherits from Object.prototype: the map is
\* an object literal, and services[name] and (name in services) look a name
\* up along the prototype chain.  What they find there is a function: it is
\* truthy, its length is 0, and it has no map, push or indexOf.
Inherited == {"toString"}

Methods == {"m"}
Options == {Undef, OptV("x"), OptV("y")}

---------------------------------------------------------------------------
(* Service classes: what the client code registers.  fn: typeof is         *)
(* 'function'; scope: the affinity, "" when falsy; hasScope: the class has *)
(* an own property scope; inject: the inject list (hasInject: it exists);  *)
(* injectProperties: pairs <<property, service>> in property order;        *)
(* methods: the methods its instances expose; hasInit: it has an init hook *)

Class(fn, isStatic, transient, hasScope, scope, hasInject, inject, injectProperties, methods, hasInit) ==
    [fn |-> fn, isStatic |-> isStatic, transient |-> transient,
     hasScope |-> hasScope, scope |-> scope,
     hasInject |-> hasInject, inject |-> inject,
     injectProperties |-> injectProperties, methods |-> methods, hasInit |-> hasInit]

ServiceClasses ==
    [ T  |-> Class(TRUE,  FALSE, TRUE,  FALSE, "",  FALSE, <<>>, <<>>, {"m"}, FALSE),
      S  |-> Class(TRUE,  FALSE, FALSE, FALSE, "",  FALSE, <<>>, <<>>, {"m"}, TRUE),
      E  |-> Class(TRUE,  FALSE, FALSE, TRUE,  "",  FALSE, <<>>, <<>>, {"m"}, TRUE),
      O  |-> Class(TRUE,  FALSE, FALSE, TRUE,  "o", FALSE, <<>>, <<>>, {"m"}, TRUE),
      I  |-> Class(TRUE,  FALSE, FALSE, TRUE,  "i", FALSE, <<>>, <<>>, {},    TRUE),
      X  |-> Class(TRUE,  TRUE,  FALSE, FALSE, "",  FALSE, <<>>, <<>>, {"m"}, FALSE),
      Y  |-> Class(TRUE,  TRUE,  TRUE,  FALSE, "",  FALSE, <<>>, <<>>, {"m"}, FALSE),
      P  |-> Class(FALSE, FALSE, FALSE, FALSE, "",  FALSE, <<>>, <<<<"dep", "b">>>>, {}, FALSE),
      J  |-> Class(TRUE,  FALSE, TRUE,  TRUE,  "o", TRUE, <<"b", "o">>, <<>>, {"m"}, FALSE),
      K  |-> Class(TRUE,  FALSE, FALSE, FALSE, "",  TRUE, <<"a">>, <<>>, {}, FALSE),
      Z  |-> Class(TRUE,  TRUE,  FALSE, TRUE,  "i", FALSE, <<>>, <<>>, {"m"}, FALSE),
      W  |-> Class(TRUE,  FALSE, FALSE, FALSE, "",  FALSE, <<>>, <<>>, {},    FALSE),
      Q  |-> Class(TRUE,  FALSE, FALSE, FALSE, "",  FALSE, <<>>, <<<<"dep", "b">>>>, {}, FALSE),
      R  |-> Class(TRUE,  FALSE, FALSE, TRUE,  "o", TRUE, <<"b">>, <<<<"dep", "b">>>>, {}, FALSE) ]

Descs == DOMAIN ServiceClasses

\* The properties scope.js reads from a registered service class; a scope
\* object registered as a service has none of them.
IsDesc(c) == c.k = "desc"
ClassOf(c) == ServiceClasses[c.d]
IsFunction(c) == IsDesc(c) /\ ClassOf(c).fn
\* (mutant: the isStatic flag is not looked at)
IsStaticFlagIgnored(c) == FALSE

IsStaticFlag(c) == IsDesc(c) /\ ClassOf(c).isStatic
IsTransient(c) == IsDesc(c) /\ ClassOf(c).transient
Affinity(c) == IF IsDesc(c) THEN ClassOf(c).scope ELSE ""
HasOwnScope(c) == IsDesc(c) /\ ClassOf(c).hasScope
HasInject(c) == IsDesc(c) /\ ClassOf(c).hasInject
InjectList(c) == IF IsDesc(c) THEN ClassOf(c).inject ELSE <<>>
InjectProperties(c) == IF IsDesc(c) THEN ClassOf(c).injectProperties ELSE <<>>
HasInit(c) == IsDesc(c) /\ ClassOf(c).hasInit

\* service[method]: the methods an instance, a static service or a scope
\* object exposes, among Methods
Exposes(v, method) ==
    /\ v.k \in {"inst", "desc"}
    /\ method \in ServiceClasses[v.d].methods

---------------------------------------------------------------------------
(* The state. *)

VARIABLES
    scopes,     \* the objects of ScopeIds: the fields scope() gives them
    arr,        \* the arrays of service classes, by array identity
    heap,       \* the constructor calls made so far, one object each
    sprops,     \* the properties injected into the static services
    initLog,    \* the init hooks run so far: <<service class, scope>>
    pool,       \* the service classes the client code registers
    hist,       \* the client operations made so far, with what they returned
    chains,     \* the callService chains started so far
    ticks,      \* the callbacks process.nextTick holds, oldest first
    lifecycles, \* the functions scope.lifecycle(...) has returned so far
    runs        \* the executions of those functions started so far

vars == <<scopes, arr, heap, sprops, initLog, pool, hist, chains, ticks,
          lifecycles, runs>>

PropNames == {"dep"}
NoProps == [p \in PropNames |-> Undef]

NoArray == 0
NoCache == [alloc |-> FALSE, slots |-> <<>>]

\* An object that has not been made a scope: {}.
PlainObject ==
    [ named |-> FALSE, scopeName |-> "", parentScope |-> NoScope,
      hasServices |-> FALSE, services |-> [n \in Names |-> NoArray],
      instances |-> [n \in Names |-> NoCache],
      initialized |-> FALSE ]

\* new Array(len): len empty slots.  Index i of the model is index i - 1 of
\* the JavaScript array.
NewArray(len) == [i \in 1..len |-> Undef]
SlotGet(slots, index) == IF index <= Len(slots) THEN slots[index] ELSE Undef
SlotSet(slots, index, v) ==
    [i \in 1..(IF index > Len(slots) THEN index ELSE Len(slots)) |->
        IF i = index THEN v ELSE SlotGet(slots, i)]

\* Array.prototype.indexOf, 0 when the element is not found
IndexOf(seq, c) ==
    IF \E i \in 1..Len(seq) : seq[i] = c
    THEN CHOOSE i \in 1..Len(seq) : seq[i] = c /\ \A j \in 1..(i-1) : seq[j] # c
    ELSE 0

\* The part of the state a resolution reads and writes.
Store == [scopes |-> scopes, heap |-> heap, sprops |-> sprops]

NoEx == [type |-> "none", service |-> "", scope |-> ""]
\* Error("Couldn't find an instance of %s on scope %s.")
AffinityError(service, scopeName) ==
    [type |-> "Error", service |-> service, scope |-> scopeName]
\* reading a property of undefined
TypeError == [type |-> "TypeError", service |-> "", scope |-> ""]
\* the call stack is exhausted
RangeError == [type |-> "RangeError", service |-> "", scope |-> ""]

Ret(st, v) == [st |-> st, v |-> v, ex |-> NoEx]
Throw(st, e) == [st |-> st, v |-> Undef, ex |-> e]
Threw(r) == r.ex.type # "none"

\* The call stack holds this many calls of require, one inside the other;
\* the next one exhausts it.  The service classes here depend on one
\* another through the names 'a' and 'b', each depending on one of them at
\* most, so a chain of requires that ends is two calls deep, three on the
\* way to a descriptor that is being resolved already.
MaxDepth == 4

\* instance[propertyName] = value
SetProperty(st, instance, prop, v) ==
    IF instance.k = "inst"
    THEN [st EXCEPT !.heap[instance.n].props[prop] = v]
    ELSE IF instance.k = "desc"
    THEN [st EXCEPT !.sprops[instance.d][prop] = v]
    ELSE st

\* the while loop of getSingleton: the nearest scope, from scope upwards,
\* whose name is the affinity
RECURSIVE Walk(_, _, _)
Walk(st, currentScope, affinity) ==
    IF currentScope # NoScope /\ st.scopes[currentScope].scopeName # affinity
    THEN Walk(st, st.scopes[currentScope].parentScope, affinity)
    ELSE currentScope

\* the lazy allocation of scope.instances[service]
AllocCache(st, s, service) ==
    IF st.scopes[s].instances[service].alloc
    THEN st
    ELSE [st EXCEPT !.scopes[s].instances[service] =
            [alloc |-> TRUE,
             slots |-> NewArray(Len(arr[st.scopes[s].services[service]]))]]

\* (mutant: one cache for all the scopes)
SetCacheEverywhere(st, s, service, index, v) ==
    [st EXCEPT !.scopes = [t \in ScopeIds |->
        [st.scopes[t] EXCEPT !.instances[service] =
            [alloc |-> TRUE,
             slots |-> SlotSet(st.scopes[t].instances[service].slots, index, v)]]]]

SetCache(st, s, service, index, v) ==
    [st EXCEPT !.scopes[s].instances[service].slots =
        SlotSet(st.scopes[s].instances[service].slots, index, v)]

\* new ServiceClass(...): one more object, with the arguments it was built with
NewInstance(st, scope, c, args) ==
    Ret([st EXCEPT !.heap = Append(st.heap,
            [d |-> c.d, scope |-> scope, args |-> args, props |-> NoProps])],
        InstV(c.d, Len(st.heap) + 1))

RECURSIVE scope_require(_, _, _, _, _)
RECURSIVE construct(_, _, _, _, _)
RECURSIVE getSingleton(_, _, _, _, _, _)
RECURSIVE requireDependency(_, _, _, _, _, _)
RECURSIVE injectProperty(_, _, _, _, _, _)

\* ServiceClass.inject.map(requireDependency), from dependency i on; the
\* result's v is the sequence of the resolved dependencies.  r is what
\* scope.require(dependency) returned for dependency i.
requireDependencyNext(r, scope, deps, i, acc, fuel) ==
    IF Threw(r) THEN r
    ELSE requireDependency(r.st, scope, deps, i + 1, Append(acc, r.v), fuel)

requireDependency(st, scope, deps, i, acc, fuel) ==
    IF i > Len(deps)
    THEN Ret(st, acc)
    ELSE requireDependencyNext(scope_require(st, scope, deps[i], Undef, fuel),
                               scope, deps, i, acc, fuel)

\* the value of instance[propertyName]
GetProperty(st, instance, prop) ==
    IF instance.k = "inst" THEN st.heap[instance.n].props[prop]
    ELSE IF instance.k = "desc" THEN st.sprops[instance.d][prop]
    ELSE Undef

\* (mutant: a property that has a value keeps it)
injectPropertyKeeps(r, scope, ips, i, instance, fuel) ==
    IF Threw(r) THEN r
    ELSE injectProperty(IF GetProperty(r.st, instance, ips[i][1]) = Undef
                        THEN SetProperty(r.st, instance, ips[i][1], r.v)
                        ELSE r.st,
                        scope, ips, i + 1, instance, fuel)

\* the forEach over ServiceClass.injectProperties, from property i on.  r is
\* what scope.require returned for property i.
injectPropertyNext(r, scope, ips, i, instance, fuel) ==
    IF Threw(r) THEN r
    ELSE injectProperty(SetProperty(r.st, instance, ips[i][1], r.v),
                        scope, ips, i + 1, instance, fuel)

injectProperty(st, scope, ips, i, instance, fuel) ==
    IF i > Len(ips)
    THEN Ret(st, instance)
    ELSE injectPropertyNext(scope_require(st, scope, ips[i][2], Undef, fuel),
                            scope, ips, i, instance, fuel)

\* (mutant: the options are pushed whether they were given or not)
constructInjectedAlwaysOptions(deps, scope, ServiceClass, options) ==
    IF Threw(deps) THEN deps
    ELSE NewInstance(deps.st, scope, ServiceClass, Append(deps.v, options))

\* instance = new BoundConstructor(): deps are the resolved dependencies
constructInjected(deps, scope, ServiceClass, options) ==
    IF Threw(deps) THEN deps
    ELSE NewInstance(deps.st, scope, ServiceClass,
                     IF Truthy(options) THEN Append(deps.v, options) ELSE deps.v)

\* the injection of the properties into the instance that was built
constructProperties(built, scope, ServiceClass, fuel) ==
    IF Threw(built) THEN built
    ELSE injectProperty(built.st, scope, InjectProperties(ServiceClass),
                        1, built.v, fuel)

construct(st, scope, ServiceClass, options, fuel) ==
    IF ~Truthy(ServiceClass) THEN Ret(st, Null)
    ELSE constructProperties(
            IF IsFunction(ServiceClass) /\ ~IsStaticFlag(ServiceClass)
            THEN IF HasInject(ServiceClass)
                 THEN constructInjected(
                        requireDependency(st, scope, InjectList(ServiceClass),
                                          1, <<>>, fuel),
                        scope, ServiceClass, options)
                 ELSE NewInstance(st, scope, ServiceClass, <<ScopeV(scope), options>>)
            ELSE Ret(st, ServiceClass),
            scope, ServiceClass, fuel)

\* (mutant: the instance is returned and not stored)
cacheLocalUnstored(r, scope, service, index) == r

\* return instances[index] = construct(scope, serviceClass, options)
cacheLocal(r, scope, service, index) ==
    IF Threw(r) THEN r
    ELSE Ret(SetCache(r.st, scope, service, index, r.v), r.v)

\* (mutant: the instance is stored in the requesting scope alone)
cacheBothLocal(r, scope, service, index, currentScope, currentScopeIndex) ==
    IF Threw(r) THEN r
    ELSE Ret(SetCache(r.st, scope, service, index, r.v), r.v)

\* return currentScopeInstances[currentScopeIndex] = instances[index]
\*          = construct(currentScope, serviceClass, options)
cacheBoth(r, scope, service, index, currentScope, currentScopeIndex) ==
    IF Threw(r) THEN r
    ELSE Ret(SetCache(SetCache(r.st, scope, service, index, r.v),
                      currentScope, service, currentScopeIndex, r.v),
             r.v)

\* (mutant: a walk that finds no scope falls through to the requesting scope)
getSingletonWalkNoThrow(st1, scope, service, index, options, fuel) ==
    LET serviceClass == arr[st1.scopes[scope].services[service]][index]
        currentScope == Walk(st1, scope, Affinity(serviceClass))
        remote == currentScope # NoScope /\ scope # currentScope
        currentScopeIndex ==
            IF remote
            THEN IndexOf(arr[st1.scopes[currentScope].services[service]], serviceClass)
            ELSE 0
        st2 == AllocCache(st1, currentScope, service)
        found == SlotGet(st2.scopes[currentScope].instances[service].slots,
                         currentScopeIndex)
    IN
    IF remote /\ st1.scopes[currentScope].services[service] = NoArray
    THEN Throw(st1, TypeError)
    ELSE IF currentScopeIndex # 0
    THEN IF Truthy(found)
         THEN Ret(SetCache(st2, scope, service, index, found), found)
         ELSE cacheBoth(construct(st2, currentScope, serviceClass, options, fuel),
                        scope, service, index, currentScope, currentScopeIndex)
    ELSE cacheLocal(construct(st1, scope, serviceClass, options, fuel),
                    scope, service, index)

\* (mutant: the singleton of an ancestor is constructed for the requesting
\* scope)
getSingletonWalkBuildsHere(st1, scope, service, index, options, fuel) ==
    LET serviceClass == arr[st1.scopes[scope].services[service]][index]
        currentScope == Walk(st1, scope, Affinity(serviceClass))
        remote == currentScope # NoScope /\ scope # currentScope
        currentScopeIndex ==
            IF remote
            THEN IndexOf(arr[st1.scopes[currentScope].services[service]], serviceClass)
            ELSE 0
        st2 == AllocCache(st1, currentScope, service)
        found == SlotGet(st2.scopes[currentScope].instances[service].slots,
                         currentScopeIndex)
    IN
    IF remote /\ st1.scopes[currentScope].services[service] = NoArray
    THEN Throw(st1, TypeError)
    ELSE IF currentScopeIndex # 0
    THEN IF Truthy(found)
         THEN Ret(SetCache(st2, scope, service, index, found), found)
         ELSE cacheBoth(construct(st2, scope, serviceClass, options, fuel),
                        scope, service, index, currentScope, currentScopeIndex)
    ELSE IF st1.scopes[scope].scopeName # Affinity(serviceClass)
    THEN Throw(st1, AffinityError(service, Affinity(serviceClass)))
    ELSE cacheLocal(construct(st1, scope, serviceClass, options, fuel),
                    scope, service, index)

\* (mutant: the instance is constructed and stored before the name of the
\* scope is tested)
getSingletonWalkStoresFirst(st1, scope, service, index, options, fuel) ==
    LET serviceClass == arr[st1.scopes[scope].services[service]][index]
        currentScope == Walk(st1, scope, Affinity(serviceClass))
        remote == currentScope # NoScope /\ scope # currentScope
        currentScopeIndex ==
            IF remote
            THEN IndexOf(arr[st1.scopes[currentScope].services[service]], serviceClass)
            ELSE 0
        st2 == AllocCache(st1, currentScope, service)
        found == SlotGet(st2.scopes[currentScope].instances[service].slots,
                         currentScopeIndex)
    IN
    IF remote /\ st1.scopes[currentScope].services[service] = NoArray
    THEN Throw(st1, TypeError)
    ELSE IF currentScopeIndex # 0
    THEN IF Truthy(found)
         THEN Ret(SetCache(st2, scope, service, index, found), found)
         ELSE cacheBoth(construct(st2, currentScope, serviceClass, options, fuel),
                        scope, service, index, currentScope, currentScopeIndex)
    ELSE IF st1.scopes[scope].scopeName # Affinity(serviceClass)
    THEN Throw(cacheLocal(construct(st1, scope, serviceClass, options, fuel),
                          scope, service, index).st,
               AffinityError(service, Affinity(serviceClass)))
    ELSE cacheLocal(construct(st1, scope, serviceClass, options, fuel),
                    scope, service, index)

\* getSingleton from the walk of the parent scopes on: st1 has the cache of
\* scope allocated, and the slot is empty
getSingletonWalk(st1, scope, service, index, options, fuel) ==
    LET serviceClass == arr[st1.scopes[scope].services[service]][index]
        currentScope == Walk(st1, scope, Affinity(serviceClass))
        remote == currentScope # NoScope /\ scope # currentScope
        currentScopeIndex ==
            IF remote
            THEN IndexOf(arr[st1.scopes[currentScope].services[service]], serviceClass)
            ELSE 0
        st2 == AllocCache(st1, currentScope, service)
        found == SlotGet(st2.scopes[currentScope].instances[service].slots,
                         currentScopeIndex)
    IN
    IF remote /\ st1.scopes[currentScope].services[service] = NoArray
    THEN Throw(st1, TypeError)
    ELSE IF currentScopeIndex # 0
    THEN IF Truthy(found)
         THEN Ret(SetCache(st2, scope, service, index, found), found)
         ELSE cacheBoth(construct(st2, currentScope, serviceClass, options, fuel),
                        scope, service, index, currentScope, currentScopeIndex)
    ELSE IF st1.scopes[scope].scopeName # Affinity(serviceClass)
    THEN Throw(st1, AffinityError(service, Affinity(serviceClass)))
    ELSE cacheLocal(construct(st1, scope, serviceClass, options, fuel),
                    scope, service, index)

\* (mutant: the slot is filled before the construction, with the service
\* class, and a require made during the construction is served from it)
getSingletonCachedReserves(st1, scope, service, index, options, fuel) ==
    LET instance == SlotGet(st1.scopes[scope].instances[service].slots, index)
        serviceClass == arr[st1.scopes[scope].services[service]][index]
    IN
    IF Truthy(instance) THEN Ret(st1, instance)
    ELSE IF Affinity(serviceClass) # ""
    THEN getSingletonWalk(st1, scope, service, index, options, fuel)
    ELSE cacheLocal(construct(SetCache(st1, scope, service, index, serviceClass),
                              scope, serviceClass, options, fuel),
                    scope, service, index)

\* (mutant: a cached plain object or static function is passed to construct
\* again)
getSingletonCachedReinjects(st1, scope, service, index, options, fuel) ==
    LET instance == SlotGet(st1.scopes[scope].instances[service].slots, index)
        serviceClass == arr[st1.scopes[scope].services[service]][index]
    IN
    IF Truthy(instance) /\ instance.k = "inst" THEN Ret(st1, instance)
    ELSE IF Affinity(serviceClass) # ""
    THEN getSingletonWalk(st1, scope, service, index, options, fuel)
    ELSE cacheLocal(construct(st1, scope, serviceClass, options, fuel),
                    scope, service, index)

\* (mutant: a scope with an empty slot is served from the slot of its parent)
getSingletonCachedInherits(st1, scope, service, index, options, fuel) ==
    LET instance == SlotGet(st1.scopes[scope].instances[service].slots, index)
        serviceClass == arr[st1.scopes[scope].services[service]][index]
        parentScope == st1.scopes[scope].parentScope
        inherited ==
            IF parentScope = NoScope THEN Undef
            ELSE SlotGet(st1.scopes[parentScope].instances[service].slots, index)
    IN
    IF Truthy(instance) THEN Ret(st1, instance)
    ELSE IF Affinity(serviceClass) # ""
    THEN getSingletonWalk(st1, scope, service, index, options, fuel)
    ELSE IF Truthy(inherited) /\ inherited.d = serviceClass.d
    THEN Ret(SetCache(st1, scope, service, index, inherited), inherited)
    ELSE cacheLocal(construct(st1, scope, serviceClass, options, fuel),
                    scope, service, index)

\* (mutant: a cached instance is returned only for the options it was built
\* with)
getSingletonCachedPerOptions(st1, scope, service, index, options, fuel) ==
    LET instance == SlotGet(st1.scopes[scope].instances[service].slots, index)
        serviceClass == arr[st1.scopes[scope].services[service]][index]
    IN
    IF /\ Truthy(instance)
       /\ instance.k = "inst" =>
             \E k \in 1..Len(st1.heap[instance.n].args) :
                 st1.heap[instance.n].args[k] = options
    THEN Ret(st1, instance)
    ELSE IF Affinity(serviceClass) # ""
    THEN getSingletonWalk(st1, scope, service, index, options, fuel)
    ELSE cacheLocal(construct(st1, scope, serviceClass, options, fuel),
                    scope, service, index)

\* getSingleton once the cache of scope is allocated
getSingletonCached(st1, scope, service, index, options, fuel) ==
    LET instance == SlotGet(st1.scopes[scope].instances[service].slots, index)
        serviceClass == arr[st1.scopes[scope].services[service]][index]
    IN
    IF Truthy(instance) THEN Ret(st1, instance)
    ELSE IF Affinity(serviceClass) # ""
    THEN getSingletonWalk(st1, scope, service, index, options, fuel)
    ELSE cacheLocal(construct(st1, scope, serviceClass, options, fuel),
                    scope, service, index)

getSingleton(st, scope, service, index, options, fuel) ==
    getSingletonCached(AllocCache(st, scope, service), scope, service, index,
                       options, fuel)

\* (mutant: every service class is resolved as a singleton)
requireLastSingleton(st, this, service, services, options, fuel) ==
    LET ServiceClass == IF Len(services) > 0 THEN services[Len(services)] ELSE Null
    IN IF ~Truthy(ServiceClass) THEN Ret(st, Null)
       ELSE getSingleton(st, this, service, Len(services), options, fuel)

\* (mutant: the first registered service class wins)
requireFirst(st, this, service, services, options, fuel) ==
    LET ServiceClass == IF Len(services) > 0 THEN services[1] ELSE Null
    IN IF ~Truthy(ServiceClass) THEN Ret(st, Null)
       ELSE IF ~IsTransient(ServiceClass)
       THEN getSingleton(st, this, service, 1, options, fuel)
       ELSE construct(st, this, ServiceClass, options, fuel)

\* scope$require from the choice of the last registered service class on
\* (services is <<>> when this.services[service] is undefined, and when it is
\* what an inherited name finds, whose length is 0)
requireLast(st, this, service, services, options, fuel) ==
    LET ServiceClass == IF Len(services) > 0 THEN services[Len(services)] ELSE Null
    IN IF ~Truthy(ServiceClass) THEN Ret(st, Null)
       ELSE IF ~IsTransient(ServiceClass)
       THEN getSingleton(st, this, service, Len(services), options, fuel)
       ELSE construct(st, this, ServiceClass, options, fuel)

scope_require(st, this, service, options, fuel) ==
    IF fuel = 0 THEN Throw(st, RangeError)
    ELSE requireLast(st, this, service,
                     IF st.scopes[this].services[service] = NoArray THEN <<>>
                     ELSE arr[st.scopes[this].services[service]],
                     options, fuel - 1)

\* the map of scope$getServices, from index i on; the result's v is the
\* sequence of the instances.  r is what index i resolved to.
RECURSIVE getServiceInstance(_, _, _, _, _, _)
getServiceInstanceNext(r, self, service, options, i, acc) ==
    IF Threw(r) THEN r
    ELSE getServiceInstance(r.st, self, service, options, i + 1, Append(acc, r.v))

getServiceInstance(st, self, service, options, i, acc) ==
    IF i > Len(arr[st.scopes[self].services[service]])
    THEN Ret(st, acc)
    ELSE getServiceInstanceNext(
            IF ~IsTransient(arr[st.scopes[self].services[service]][i])
            THEN getSingleton(st, self, service, i, options, MaxDepth)
            ELSE construct(st, self, arr[st.scopes[self].services[service]][i],
                           options, MaxDepth),
            self, service, options, i, acc)

\* (service in self.services) holds of an inherited name, and what
\* self.services[service] is then has no map
scope_getServices(st, self, service, options) ==
    IF st.scopes[self].services[service] = NoArray
    THEN IF service \in Inherited THEN Throw(st, TypeError) ELSE Ret(st, <<>>)
    ELSE getServiceInstance(st, self, service, options, 1, <<>>)

---------------------------------------------------------------------------
(* The registry: scope(), initialize, register, makeSubScope.  They read   *)
(* and write the scopes, the arrays and the log of the init hooks.         *)

Registry == [scopes |-> scopes, arr |-> arr, initLog |-> initLog]

\* The keys of a services map, in the order the model visits them.
NameSeq == <<"", "o", "i", "a", "b", "toString">>

\* ServiceClass.init(scope), when the class has an init hook.  The classes of
\* the model declare no static event handlers (ServiceClass.on).
initializeService(rw, scope, ServiceClass) ==
    IF HasInit(ServiceClass)
    THEN [rw EXCEPT !.initLog[<<ServiceClass.d, scope>>] = @ + 1]
    ELSE rw

\* (mutant: the scope of the service class is not looked at)
RECURSIVE initializeClassesOfAnyScope(_, _, _, _)
initializeClassesOfAnyScope(rw, this, serviceClasses, i) ==
    IF i > Len(serviceClasses) THEN rw
    ELSE initializeClassesOfAnyScope(initializeService(rw, this, serviceClasses[i]),
                                     this, serviceClasses, i + 1)

\* the inner loop of scope$initialize, from index i on
RECURSIVE initializeClasses(_, _, _, _)
initializeClasses(rw, this, serviceClasses, i) ==
    IF i > Len(serviceClasses) THEN rw
    ELSE LET ServiceClass == serviceClasses[i]
             rw1 == IF Affinity(ServiceClass) = ""
                       \/ Affinity(ServiceClass) = rw.scopes[this].scopeName
                    THEN initializeService(rw, this, ServiceClass)
                    ELSE rw
         IN initializeClasses(rw1, this, serviceClasses, i + 1)

\* the outer loop of scope$initialize, from the k-th service name on
RECURSIVE initializeNames(_, _, _)
initializeNames(rw, this, k) ==
    IF k > Len(NameSeq) THEN rw
    ELSE LET id == rw.scopes[this].services[NameSeq[k]]
             rw1 == IF id = NoArray THEN rw
                    ELSE initializeClasses(rw, this, rw.arr[id], 1)
         IN initializeNames(rw1, this, k + 1)

scope_initialize(rw, this) ==
    IF rw.scopes[this].hasServices
    THEN [initializeNames(rw, this, 1) EXCEPT !.scopes[this].initialized = TRUE]
    ELSE rw

\* (mutant: unshift for push)
scope_registerFirst(rw, this, name, ServiceClass) ==
    LET id == rw.scopes[this].services[name]
    IN [rw |-> IF id = NoArray
               THEN [rw EXCEPT !.arr = Append(@, <<ServiceClass>>),
                               !.scopes[this].services[name] = Len(rw.arr) + 1]
               ELSE [rw EXCEPT !.arr[id] = <<ServiceClass>> \o @],
        ex |-> NoEx]

\* The result is the registry and whether the call threw: what an inherited
\* name finds is truthy and has no push.
scope_register(rw, this, name, ServiceClass) ==
    LET id == rw.scopes[this].services[name]
        rw1 == IF id = NoArray
               THEN [rw EXCEPT !.arr = Append(@, <<ServiceClass>>),
                               !.scopes[this].services[name] = Len(rw.arr) + 1]
               ELSE [rw EXCEPT !.arr[id] = Append(@, ServiceClass)]
    IN IF id = NoArray /\ name \in Inherited
       THEN [rw |-> rw, ex |-> TypeError]
       ELSE [rw |-> IF rw1.scopes[this].initialized
                       /\ (~HasOwnScope(ServiceClass)
                           \/ Affinity(ServiceClass) = rw1.scopes[this].scopeName)
                    THEN initializeService(rw1, this, ServiceClass)
                    ELSE rw1,
             ex |-> NoEx]

\* objectToScope.scopeName is truthy: the object has been scoped under a
\* name other than ''
AlreadyScoped(rw, objectToScope) ==
    rw.scopes[objectToScope].named /\ rw.scopes[objectToScope].scopeName # ""

\* scope(name, objectToScope, services, parentScope); services is
\* [given |-> FALSE] or [given |-> TRUE, map |-> a services map].  The
\* result is the registry and whether the call threw.
scope(rw, name, objectToScope, services, parentScope) ==
    IF AlreadyScoped(rw, objectToScope)
    THEN [rw |-> rw, ex |-> NoEx]
    ELSE IF ~services.given /\ ~rw.scopes[objectToScope].hasServices
    THEN [rw |-> rw, ex |-> TypeError]
    ELSE
    LET copied == IF services.given
                  THEN [rw EXCEPT !.scopes[objectToScope].services = services.map,
                                  !.scopes[objectToScope].hasServices = TRUE]
                  ELSE rw
        made == [copied EXCEPT
                    !.arr = Append(@, <<ScopeV(objectToScope)>>),
                    !.scopes[objectToScope].services[name] = Len(copied.arr) + 1,
                    !.scopes[objectToScope].named = TRUE,
                    !.scopes[objectToScope].scopeName = name,
                    !.scopes[objectToScope].parentScope = parentScope,
                    !.scopes[objectToScope].instances = [n \in Names |-> NoCache]]
    IN [rw |-> IF services.given THEN scope_initialize(made, objectToScope) ELSE made,
        ex |-> NoEx]

scope_makeSubScope(rw, this, name, subScope) ==
    scope(rw, name, subScope,
          [given |-> TRUE, map |-> rw.scopes[this].services], this)

\* The client writes a services map as a literal: a fresh array for every
\* key of it.  lit maps each name to the service classes listed under it,
\* <<>> for a name that is not a key.
RECURSIVE Literal(_, _, _, _)
Literal(arrays, lit, k, map) ==
    IF k > Len(NameSeq) THEN [arr |-> arrays, map |-> map]
    ELSE IF lit[NameSeq[k]] = <<>>
    THEN Literal(arrays, lit, k + 1, map)
    ELSE Literal(Append(arrays, lit[NameSeq[k]]), lit, k + 1,
                 [map EXCEPT ![NameSeq[k]] = Len(arrays) + 1])

NoServices == [n \in Names |-> NoArray]
EmptyLiteral == [n \in Names |-> <<>>]

\* scope(name, objectToScope, {...literal...}, parentScope)
\* (the arrays of a literal handed to a call that leaves the object alone
\* are garbage at once, and are not kept)
ScopeWithLiteral(rw, name, objectToScope, lit, parentScope) ==
    LET l == Literal(rw.arr, lit, 1, NoServices)
    IN IF AlreadyScoped(rw, objectToScope)
       THEN scope(rw, name, objectToScope, [given |-> TRUE, map |-> l.map], parentScope)
       ELSE scope([rw EXCEPT !.arr = l.arr], name, objectToScope,
                  [given |-> TRUE, map |-> l.map], parentScope)

---------------------------------------------------------------------------
(* callService: the chain of calls.  A chain holds the instances resolved  *)
(* when it started, the step it is at (n, from 1), the methods invoked so  *)
(* far (each with its step), what they passed to their callbacks so far    *)
(* (answers) and the calls of done made so far (the arguments of each); op *)
(* is the place in hist of the callService that started it.                *)

Errors == {[k |-> "err", d |-> "e", n |-> 0]}

\* the values a method passes to its callback when it fails later
Failures == Errors \cup {[k |-> "err", d |-> "f", n |-> 0]}

\* how an invoked service method answers: it calls its callback before it
\* returns, without or with an error, or it calls it later
Behaviours == {"sync", "syncerr", "later"}

\* (mutant: an error does not end the chain)
nextServiceGoesOn(ch, n, err) ==
    IF n + 1 <= Len(ch.services)
    THEN [ch EXCEPT !.pc = "tick"]
    ELSE [ch EXCEPT !.pc = "done", !.dones = Append(@, <<>>)]

\* (mutant: done(err) is not followed by return)
nextServiceNoReturn(ch, n, err) ==
    IF Truthy(err) /\ n + 1 > Len(ch.services)
    THEN [ch EXCEPT !.pc = "done", !.dones = Append(Append(@, <<err>>), <<>>)]
    ELSE IF Truthy(err)
    THEN [ch EXCEPT !.pc = "tick", !.dones = Append(@, <<err>>)]
    ELSE IF n + 1 <= Len(ch.services)
    THEN [ch EXCEPT !.pc = "tick"]
    ELSE [ch EXCEPT !.pc = "done", !.dones = Append(@, <<>>)]

\* nextService(err) of step n
nextService(ch, n, err) ==
    IF Truthy(err)
    THEN [ch EXCEPT !.pc = "done", !.dones = Append(@, <<err>>)]
    ELSE IF n + 1 <= Len(ch.services)
    THEN [ch EXCEPT !.pc = "tick"]
    ELSE [ch EXCEPT !.pc = "done", !.dones = Append(@, <<>>)]

\* function (err) {nextService(err);}: the callback the method of step n is
\* handed, called with err
callback(ch, n, err) ==
    nextService([ch EXCEPT !.answers = Append(@, err)], n, err)

\* (mutant: the options are not handed to the method)
callNthServiceNoOptions(ch, n, beh) ==
    LET service == ch.services[n]
        at == [ch EXCEPT !.n = n]
    IN IF Exposes(service, ch.method)
       THEN LET called == [at EXCEPT !.invoked =
                              Append(@, [step |-> n, service |-> service, options |-> Undef])]
            IN CASE beh = "later" -> [called EXCEPT !.pc = "inflight"]
                 [] beh = "sync" -> callback(called, n, Undef)
                 [] OTHER -> callback(called, n, CHOOSE e \in Errors : TRUE)
       ELSE nextService(at, n, Undef)

\* (mutant: after an instance without the method the next one is called at
\* once, with no process.nextTick between the two)
RECURSIVE callNthServiceSkipsAhead(_, _, _)
callNthServiceSkipsAhead(ch, n, beh) ==
    LET service == ch.services[n]
        at == [ch EXCEPT !.n = n]
    IN IF Exposes(service, ch.method)
       THEN LET called == [at EXCEPT !.invoked =
                              Append(@, [step |-> n, service |-> service, options |-> ch.options])]
            IN CASE beh = "later" -> [called EXCEPT !.pc = "inflight"]
                 [] beh = "sync" -> callback(called, n, Undef)
                 [] OTHER -> callback(called, n, CHOOSE e \in Errors : TRUE)
       ELSE IF n + 1 <= Len(ch.services)
       THEN callNthServiceSkipsAhead(at, n + 1, beh)
       ELSE nextService(at, n, Undef)

\* (mutant: an instance without the method ends the chain)
callNthServiceStopsAtSkip(ch, n, beh) ==
    LET service == ch.services[n]
        at == [ch EXCEPT !.n = n]
    IN IF Exposes(service, ch.method)
       THEN LET called == [at EXCEPT !.invoked =
                              Append(@, [step |-> n, service |-> service, options |-> ch.options])]
            IN CASE beh = "later" -> [called EXCEPT !.pc = "inflight"]
                 [] beh = "sync" -> callback(called, n, Undef)
                 [] OTHER -> callback(called, n, CHOOSE e \in Errors : TRUE)
       ELSE [at EXCEPT !.pc = "done", !.dones = Append(@, <<>>)]

\* callNthService(n); beh is the answer of the method when it is invoked
callNthService(ch, n, beh) ==
    LET service == ch.services[n]
        at == [ch EXCEPT !.n = n]
    IN IF Exposes(service, ch.method)
       THEN LET called == [at EXCEPT !.invoked =
                              Append(@, [step |-> n, service |-> service, options |-> ch.options])]
            IN CASE beh = "later" -> [called EXCEPT !.pc = "inflight"]
                 [] beh = "sync" -> callback(called, n, Undef)
                 [] OTHER -> callback(called, n, CHOOSE e \in Errors : TRUE)
       ELSE nextService(at, n, Undef)

\* What process.nextTick is handed: function callNextService() of chain i,
\* and function callNextStep() of the lifecycle execution i.
callNextService(i) == [run |-> FALSE, i |-> i]
callNextStep(i) == [run |-> TRUE, i |-> i]

\* the body of scope$callService once getServices has returned services
startChain(this, name, method, options, services, beh) ==
    LET ch == [op |-> Len(hist) + 1, scope |-> this, service |-> name,
               method |-> method, options |-> options, services |-> services, n |-> 0,
               pc |-> "start", invoked |-> <<>>, answers |-> <<>>, dones |-> <<>>]
    IN IF Len(services) > 0
       THEN callNthService(ch, 1, beh)
       ELSE [ch EXCEPT !.pc = "done", !.dones = Append(@, <<>>)]

---------------------------------------------------------------------------
(* lifecycle: the function scope$lifecycle builds, and its executions.     *)
(* The arguments are strings and functions; methodArray holds the methods  *)
(* bound to the instances resolved at the build and the functions of the   *)
(* client.  An execution holds what a chain of callService holds; fn is    *)
(* the place in lifecycles of the function that is executed.               *)

\* a string and a function(options, done) of the client, as arguments
StrV(d) == [k |-> "str", d |-> d, n |-> 0]
FnV(f) == [k |-> "fn", d |-> "", n |-> f]

\* service[methodName].bind(service), and a function of the client
Bound(service, methodName) == [bare |-> FALSE, f |-> 0, service |-> service, method |-> methodName]
Bare(f) == [bare |-> TRUE, f |-> f.n, service |-> Undef, method |-> ""]

\* arguments[i], undefined past the end
Argument(arguments, i) == IF i <= Len(arguments) THEN arguments[i] ELSE Undef

\* service[methodName] is a function: methodName is the name of a method
\* the service exposes
HasMethod(service, methodName) ==
    methodName.k = "str" /\ methodName.d \in Methods /\ Exposes(service, methodName.d)

RECURSIVE scope_lifecycleFrom(_, _, _, _, _)

\* (mutant: the method of the first service alone is pushed)
serviceToMethodFirstOnly(r, this, arguments, i, methodArray) ==
    IF Threw(r) THEN r
    ELSE IF \E p \in 1..Len(r.v) : ~HasMethod(r.v[p], Argument(arguments, i + 1))
    THEN Throw(r.st, TypeError)
    ELSE scope_lifecycleFrom(r.st, this, arguments, i + 2,
            methodArray \o [p \in 1..(IF Len(r.v) > 0 THEN 1 ELSE 0) |->
                               Bound(r.v[p], Argument(arguments, i + 1).d)])

\* (mutant: a service without the method is passed over)
serviceToMethodSkips(r, this, arguments, i, methodArray) ==
    IF Threw(r) THEN r
    ELSE scope_lifecycleFrom(r.st, this, arguments, i + 2,
            methodArray \o
            [p \in 1..Cardinality({q \in 1..Len(r.v) :
                                     HasMethod(r.v[q], Argument(arguments, i + 1))}) |->
                Bound(r.v[CHOOSE q \in 1..Len(r.v) :
                            /\ HasMethod(r.v[q], Argument(arguments, i + 1))
                            /\ Cardinality({x \in 1..q :
                                   HasMethod(r.v[x], Argument(arguments, i + 1))}) = p],
                      Argument(arguments, i + 1).d)])

\* services.map(serviceToMethod) pushed onto methodArray; r is what
\* this.getServices(arguments[i]) returned, and the method name is
\* arguments[i + 1].  undefined has no bind.
serviceToMethod(r, this, arguments, i, methodArray) ==
    IF Threw(r) THEN r
    ELSE IF \E p \in 1..Len(r.v) : ~HasMethod(r.v[p], Argument(arguments, i + 1))
    THEN Throw(r.st, TypeError)
    ELSE scope_lifecycleFrom(r.st, this, arguments, i + 2,
            methodArray \o [p \in 1..Len(r.v) |->
                               Bound(r.v[p], Argument(arguments, i + 1).d)])

\* the loop of scope$lifecycle, from arguments[i] on; the result's v is
\* methodArray
scope_lifecycleFrom(st, this, arguments, i, methodArray) ==
    IF i > Len(arguments) THEN Ret(st, methodArray)
    ELSE IF arguments[i].k = "fn"
    THEN scope_lifecycleFrom(st, this, arguments, i + 1,
                             Append(methodArray, Bare(arguments[i])))
    ELSE serviceToMethod(scope_getServices(st, this, arguments[i].d, Undef),
                         this, arguments, i, methodArray)

scope_lifecycle(st, this, arguments) ==
    scope_lifecycleFrom(st, this, arguments, 1, <<>>)

\* nextStep(err) of step n
nextStep(run, n, err) ==
    IF Truthy(err)
    THEN [run EXCEPT !.pc = "done", !.dones = Append(@, <<err>>)]
    ELSE IF n + 1 <= Len(run.methodArray)
    THEN [run EXCEPT !.pc = "tick"]
    ELSE [run EXCEPT !.pc = "done", !.dones = Append(@, <<>>)]

\* function (err) {nextStep(err);}: the callback step n is handed, called
\* with err
stepCallback(run, n, err) ==
    nextStep([run EXCEPT !.answers = Append(@, err)], n, err)

\* (mutant: the next step does not wait for the callback of this one)
executeNthStepNoWait(run, n, beh) ==
    LET method == run.methodArray[n]
        called == [run EXCEPT !.n = n,
                              !.invoked = Append(@, [step |-> n, method |-> method,
                                                     options |-> run.options])]
    IN CASE beh = "later" ->
                [called EXCEPT !.pc = IF n + 1 <= Len(run.methodArray)
                                      THEN "tick" ELSE "inflight"]
         [] beh = "sync" -> stepCallback(called, n, Undef)
         [] OTHER -> stepCallback(called, n, CHOOSE e \in Errors : TRUE)

\* (mutant: the steps are handed the options of the execution started last)
executeNthStepSharedOptions(run, n, beh) ==
    LET method == run.methodArray[n]
        called == [run EXCEPT !.n = n,
                              !.invoked = Append(@, [step |-> n, method |-> method,
                                                     options |-> IF runs = <<>> THEN run.options
                                                                 ELSE runs[Len(runs)].options])]
    IN CASE beh = "later" -> [called EXCEPT !.pc = "inflight"]
         [] beh = "sync" -> stepCallback(called, n, Undef)
         [] OTHER -> stepCallback(called, n, CHOOSE e \in Errors : TRUE)

\* executeNthStep(n); beh is the answer of the step
executeNthStep(run, n, beh) ==
    LET method == run.methodArray[n]
        called == [run EXCEPT !.n = n,
                              !.invoked = Append(@, [step |-> n, method |-> method,
                                                     options |-> run.options])]
    IN CASE beh = "later" -> [called EXCEPT !.pc = "inflight"]
         [] beh = "sync" -> stepCallback(called, n, Undef)
         [] OTHER -> stepCallback(called, n, CHOOSE e \in Errors : TRUE)

\* (mutant: the steps are those of the function built last)
lifecycleOfLatest(fn, options, beh) ==
    LET run == [op |-> Len(hist) + 1, fn |-> fn,
                methodArray |-> lifecycles[Len(lifecycles)].methodArray,
                options |-> options,
                n |-> 0, pc |-> "start", invoked |-> <<>>, answers |-> <<>>,
                dones |-> <<>>]
    IN IF Len(run.methodArray) > 0
       THEN executeNthStep(run, 1, beh)
       ELSE [run EXCEPT !.pc = "done", !.dones = Append(@, <<>>)]

\* function lifecycle(options, done), the fn-th function built
lifecycle(fn, options, beh) ==
    LET run == [op |-> Len(hist) + 1, fn |-> fn,
                methodArray |-> lifecycles[fn].methodArray, options |-> options,
                n |-> 0, pc |-> "start", invoked |-> <<>>, answers |-> <<>>,
                dones |-> <<>>]
    IN IF Len(run.methodArray) > 0
       THEN executeNthStep(run, 1, beh)
       ELSE [run EXCEPT !.pc = "done", !.dones = Append(@, <<>>)]

---------------------------------------------------------------------------
(* The operations of the client code. *)

\* One entry of hist.  cls are the service classes the operation resolved
\* and res what it returned for each; at is the index of the first of them;
\* h0 and h1 are the numbers of constructor calls made before and after it.
Op(op, s, name, c, options, cls, at, res, ex, h1) ==
    [op |-> op, scope |-> s, name |-> name, c |-> c, options |-> options,
     cls |-> cls, at |-> at, res |-> res, ex |-> ex, h0 |-> Len(heap), h1 |-> h1]

IsScope(s) == scopes[s].named

\* p is s or an ancestor of s
RECURSIVE OnChain(_, _)
OnChain(p, s) ==
    IF s = NoScope THEN FALSE
    ELSE IF s = p THEN TRUE
    ELSE OnChain(p, scopes[s].parentScope)

CanStart == Len(hist) < MaxOps

CanChain == Len(chains) + Len(runs) < MaxChains

SetStore(st) ==
    /\ Len(st.heap) <= MaxInst
    /\ scopes' = st.scopes
    /\ heap' = st.heap
    /\ sprops' = st.sprops

SetRegistry(rw) ==
    /\ scopes' = rw.scopes
    /\ arr' = rw.arr
    /\ initLog' = rw.initLog

\* the service classes scope.services[name] lists
Listed(s, name) ==
    IF scopes[s].services[name] = NoArray THEN <<>> ELSE arr[scopes[s].services[name]]

Register(s, name, c) ==
    /\ CanStart
    /\ IsScope(s)
    /\ LET r == scope_register(Registry, s, name, c)
       IN /\ SetRegistry(r.rw)
          /\ hist' = Append(hist, Op("register", s, name, c, Undef, <<>>, 0, <<>>,
                                     r.ex, Len(heap)))
    /\ UNCHANGED <<heap, sprops, pool, chains, ticks, lifecycles, runs>>

Require(s, name, options) ==
    /\ CanStart
    /\ IsScope(s)
    /\ LET r == scope_require(Store, s, name, options, MaxDepth)
           n == Len(Listed(s, name))
       IN /\ SetStore(r.st)
          /\ hist' = Append(hist,
                Op("require", s, name, Undef, options,
                   IF n = 0 THEN <<>> ELSE <<Listed(s, name)[n]>>, n,
                   IF Threw(r) THEN <<>> ELSE <<r.v>>, r.ex, Len(r.st.heap)))
    /\ UNCHANGED <<arr, initLog, pool, chains, ticks, lifecycles, runs>>

GetServices(s, name, options) ==
    /\ CanStart
    /\ IsScope(s)
    /\ LET r == scope_getServices(Store, s, name, options)
       IN /\ SetStore(r.st)
          /\ hist' = Append(hist,
                Op("getServices", s, name, Undef, options, Listed(s, name), 1,
                   IF Threw(r) THEN <<>> ELSE r.v, r.ex, Len(r.st.heap)))
    /\ UNCHANGED <<arr, initLog, pool, chains, ticks, lifecycles, runs>>

Initialize(s) ==
    /\ CanStart
    /\ IsScope(s)
    /\ SetRegistry(scope_initialize(Registry, s))
    /\ hist' = Append(hist, Op("initialize", s, "", Undef, Undef, <<>>, 0, <<>>, NoEx, Len(heap)))
    /\ UNCHANGED <<heap, sprops, pool, chains, ticks, lifecycles, runs>>

MakeSubScope(s, name, subScope) ==
    /\ CanStart
    /\ IsScope(s)
    /\ ~OnChain(subScope, s)
    /\ pool.rescope \/ ~IsScope(subScope)
    /\ LET r == scope_makeSubScope(Registry, s, name, subScope)
       IN /\ SetRegistry(r.rw)
          /\ hist' = Append(hist, Op("makeSubScope", s, name, ScopeV(subScope), Undef,
                                     <<>>, 0, <<ScopeV(subScope)>>, r.ex, Len(heap)))
    /\ UNCHANGED <<heap, sprops, pool, chains, ticks, lifecycles, runs>>

\* scope(name, objectToScope, literal, parentScope), and with given false
\* scope(name, objectToScope)
MakeScope(name, objectToScope, given, lit, parentScope) ==
    /\ CanStart
    /\ parentScope # NoScope => IsScope(parentScope) /\ ~OnChain(objectToScope, parentScope)
    /\ pool.rescope \/ ~IsScope(objectToScope)
    /\ LET r == IF given
                THEN ScopeWithLiteral(Registry, name, objectToScope, lit, parentScope)
                ELSE scope(Registry, name, objectToScope, [given |-> FALSE], parentScope)
       IN /\ SetRegistry(r.rw)
          /\ hist' = Append(hist, Op(IF given THEN "scope" ELSE "scopeNoServices",
                                     parentScope, name, ScopeV(objectToScope),
                                     Undef, <<>>, 0,
                                     IF Threw(r) THEN <<>> ELSE <<ScopeV(objectToScope)>>,
                                     r.ex, Len(heap)))
    /\ UNCHANGED <<heap, sprops, pool, chains, ticks, lifecycles, runs>>

CallService(s, name, method, options, beh) ==
    /\ CanStart
    /\ CanChain
    /\ IsScope(s)
    /\ LET r == scope_getServices(Store, s, name, Undef)
       IN /\ SetStore(r.st)
          /\ hist' = Append(hist,
                Op("callService", s, name, Undef, options, Listed(s, name), 1,
                   IF Threw(r) THEN <<>> ELSE r.v, r.ex, Len(r.st.heap)))
          /\ IF Threw(r)
             THEN UNCHANGED <<chains, ticks>>
             ELSE LET ch == startChain(s, name, method, options, r.v, beh)
                  IN /\ chains' = Append(chains, ch)
                     /\ ticks' = IF ch.pc = "tick"
                                 THEN Append(ticks, callNextService(Len(chains) + 1))
                                 ELSE ticks
    /\ UNCHANGED <<arr, initLog, pool, lifecycles, runs>>

\* process.nextTick runs its oldest callback: callNthService(n + 1)
Tick(beh) ==
    /\ ticks # <<>>
    /\ ~Head(ticks).run
    /\ LET i == Head(ticks).i
           ch == callNthService(chains[i], chains[i].n + 1, beh)
       IN /\ chains' = [chains EXCEPT ![i] = ch]
          /\ ticks' = IF ch.pc = "tick"
                      THEN Append(Tail(ticks), callNextService(i)) ELSE Tail(ticks)
    /\ UNCHANGED <<scopes, arr, heap, sprops, initLog, pool, hist, lifecycles, runs>>

\* a service method that was invoked calls its callback
Callback(i, err) ==
    /\ i \in 1..Len(chains)
    /\ chains[i].pc = "inflight"
    /\ LET ch == callback(chains[i], chains[i].n, err)
       IN /\ chains' = [chains EXCEPT ![i] = ch]
          /\ ticks' = IF ch.pc = "tick" THEN Append(ticks, callNextService(i)) ELSE ticks
    /\ UNCHANGED <<scopes, arr, heap, sprops, initLog, pool, hist, lifecycles, runs>>

\* scope.lifecycle(arguments...)
Lifecycle(s, arguments) ==
    /\ CanStart
    /\ IsScope(s)
    /\ LET r == scope_lifecycle(Store, s, arguments)
       IN /\ SetStore(r.st)
          /\ hist' = Append(hist, Op("lifecycle", s, "", Undef, Undef, <<>>, 0, <<>>,
                                     r.ex, Len(r.st.heap)))
          /\ lifecycles' = IF Threw(r) THEN lifecycles
                           ELSE Append(lifecycles,
                                   [op |-> Len(hist) + 1, scope |-> s,
                                    arguments |-> arguments, methodArray |-> r.v])
    /\ UNCHANGED <<arr, initLog, pool, chains, ticks, runs>>

\* the client calls a function that scope.lifecycle returned
Run(fn, options, beh) ==
    /\ CanStart
    /\ CanChain
    /\ fn \in 1..Len(lifecycles)
    /\ LET run == lifecycle(fn, options, beh)
       IN /\ runs' = Append(runs, run)
          /\ ticks' = IF run.pc = "tick"
                      THEN Append(ticks, callNextStep(Len(runs) + 1)) ELSE ticks
    /\ hist' = Append(hist, Op("run", lifecycles[fn].scope, "", Undef, options,
                               <<>>, 0, <<>>, NoEx, Len(heap)))
    /\ UNCHANGED <<scopes, arr, heap, sprops, initLog, pool, chains, lifecycles>>

\* process.nextTick runs its oldest callback: executeNthStep(n + 1)
TickRun(beh) ==
    /\ ticks # <<>>
    /\ Head(ticks).run
    /\ LET i == Head(ticks).i
           run == executeNthStep(runs[i], runs[i].n + 1, beh)
       IN /\ runs' = [runs EXCEPT ![i] = run]
          /\ ticks' = IF run.pc = "tick"
                      THEN Append(Tail(ticks), callNextStep(i)) ELSE Tail(ticks)
    /\ UNCHANGED <<scopes, arr, heap, sprops, initLog, pool, hist, chains, lifecycles>>

\* a step that was invoked calls its callback
CallbackRun(i, err) ==
    /\ i \in 1..Len(runs)
    /\ runs[i].pc = "inflight"
    /\ LET run == stepCallback(runs[i], runs[i].n, err)
       IN /\ runs' = [runs EXCEPT ![i] = run]
          /\ ticks' = IF run.pc = "tick" THEN Append(ticks, callNextStep(i)) ELSE ticks
    /\ UNCHANGED <<scopes, arr, heap, sprops, initLog, pool, hist, chains, lifecycles>>

\* A method whose callback has fired calls it once more, with err:
\* nextService(err) of that step runs again.  The step is the p-th that
\* chain i has invoked.  n is a parameter of callNthService, so what follows
\* is a continuation of its own, with its own position; it is held as one
\* more chain of the same call of callService (the same op), which has
\* invoked what chain i had invoked up to that step.
CallbackAgain(i, p, err) ==
    /\ CanChain
    /\ i \in 1..Len(chains)
    /\ p \in 1..Len(chains[i].answers)
    /\ LET n == chains[i].invoked[p].step
           ch == callback([chains[i] EXCEPT !.n = n,
                                            !.invoked = SubSeq(@, 1, p),
                                            !.answers = SubSeq(@, 1, p - 1),
                                            !.dones = <<>>],
                          n, err)
       IN /\ chains' = Append(chains, ch)
          /\ ticks' = IF ch.pc = "tick"
                      THEN Append(ticks, callNextService(Len(chains) + 1)) ELSE ticks
    /\ UNCHANGED <<scopes, arr, heap, sprops, initLog, pool, hist, lifecycles, runs>>

\* the same for a step of an execution of a lifecycle function: nextStep(err)
\* of that step runs again
CallbackRunAgain(i, p, err) ==
    /\ CanChain
    /\ i \in 1..Len(runs)
    /\ p \in 1..Len(runs[i].answers)
    /\ LET n == runs[i].invoked[p].step
           run == stepCallback([runs[i] EXCEPT !.n = n,
                                              !.invoked = SubSeq(@, 1, p),
                                              !.answers = SubSeq(@, 1, p - 1),
                                              !.dones = <<>>],
                               n, err)
       IN /\ runs' = Append(runs, run)
          /\ ticks' = IF run.pc = "tick"
                      THEN Append(ticks, callNextStep(Len(runs) + 1)) ELSE ticks
    /\ UNCHANGED <<scopes, arr, heap, sprops, initLog, pool, hist, chains, lifecycles>>

---------------------------------------------------------------------------
(* The specifications.  pool is what the client code works with: the       *)
(* service classes it lists under 'a' when it makes the root scope, the    *)
(* service classes it registers, the service names it asks for, the names  *)
(* it gives to scopes, the options it passes, the services maps it writes  *)
(* as literals, how its service methods answer, and whether it calls       *)
(* scope() again on an object that is a scope already; and, when it builds *)
(* lifecycle functions, the argument lists it builds them with.            *)

Pool(initial, classes, names, scopeNames, options, literals, behaviours, rescope) ==
    [initial |-> initial, classes |-> classes, names |-> names,
     scopeNames |-> scopeNames, options |-> options, literals |-> literals,
     behaviours |-> behaviours, rescope |-> rescope]

\* the same client, which also calls scope.lifecycle with the argument lists
\* of arguments
WithArguments(p, arguments) ==
    [f \in DOMAIN p \cup {"arguments"} |->
        IF f = "arguments" THEN arguments ELSE p[f]]

\* the literal { name: [classes...] }
Lit(name, classes) == [EmptyLiteral EXCEPT ![name] = classes]

\* Before any call of scope(): three plain objects.
Blank ==
    [scopes |-> [s \in ScopeIds |-> PlainObject], arr |-> <<>>,
     initLog |-> [x \in Descs \X ScopeIds |-> 0]]

InitFrom(rw, p) ==
    /\ scopes = rw.scopes
    /\ arr = rw.arr
    /\ initLog = rw.initLog
    /\ heap = <<>>
    /\ sprops = [d \in Descs |-> NoProps]
    /\ pool = p
    /\ hist = <<>>
    /\ chains = <<>>
    /\ ticks = <<>>
    /\ lifecycles = <<>>
    /\ runs = <<>>

RegisterStep ==
    \E s \in ScopeIds, name \in pool.names, c \in pool.classes : Register(s, name, c)
RequireStep ==
    \E s \in ScopeIds, name \in pool.names, options \in pool.options :
        Require(s, name, options)
GetServicesStep ==
    \E s \in ScopeIds, name \in pool.names, options \in pool.options :
        GetServices(s, name, options)
InitializeStep ==
    \E s \in ScopeIds : Initialize(s)
MakeSubScopeStep ==
    \E s \in ScopeIds, name \in pool.scopeNames, subScope \in ScopeIds :
        MakeSubScope(s, name, subScope)
MakeScopeStep ==
    \E name \in pool.scopeNames, objectToScope \in ScopeIds,
       parentScope \in ScopeIds \cup {NoScope} :
        \/ \E lit \in pool.literals :
              MakeScope(name, objectToScope, TRUE, lit, parentScope)
        \/ MakeScope(name, objectToScope, FALSE, EmptyLiteral, parentScope)
CallServiceStep ==
    \E s \in ScopeIds, name \in pool.names, method \in Methods,
       options \in pool.options, beh \in pool.behaviours :
        CallService(s, name, method, options, beh)
TickStep ==
    \E beh \in pool.behaviours : Tick(beh)
CallbackStep ==
    \E i \in 1..Len(chains), err \in Errors \cup {Undef} : Callback(i, err)

\* the same, when the methods fail with one value or another
CallbackFailStep ==
    \E i \in 1..Len(chains), err \in Failures \cup {Undef} : Callback(i, err)

\* The argument lists of scope.lifecycle: a pair, a function, the two in
\* either order, two pairs around a function, none, and a service name that
\* no method name follows.
LifecycleArguments(name) ==
    { <<>>, <<StrV(name), StrV("m")>>, <<FnV(1)>>,
      <<StrV(name), StrV("m"), FnV(1)>>, <<FnV(1), StrV(name), StrV("m")>>,
      <<StrV(name), StrV("m"), FnV(1), StrV(name), StrV("m")>>,
      <<StrV(name)>> }

LifecycleStep ==
    \E s \in ScopeIds, arguments \in pool.arguments : Lifecycle(s, arguments)
RunStep ==
    \E fn \in 1..Len(lifecycles), options \in pool.options, beh \in pool.behaviours :
        Run(fn, options, beh)
TickRunStep ==
    \E beh \in pool.behaviours : TickRun(beh)
CallbackRunStep ==
    \E i \in 1..Len(runs), err \in Failures \cup {Undef} : CallbackRun(i, err)

Next ==
    \/ RegisterStep
    \/ RequireStep
    \/ GetServicesStep
    \/ InitializeStep
    \/ MakeSubScopeStep
    \/ MakeScopeStep
    \/ CallServiceStep
    \/ TickStep
    \/ CallbackStep
    \/ CallbackFailStep
    \/ LifecycleStep
    \/ RunStep
    \/ TickRunStep
    \/ CallbackRunStep

\* scope('o', {}, { a: p.initial }): the root scope, and two plain objects
RootScope(p) ==
    InitFrom(ScopeWithLiteral(Blank, "o", 1, Lit("a", p.initial), NoScope).rw, p)

\* A root scope 'o' made with { a: [S] }; the client registers a transient
\* class and a static object, and calls the services with and without
\* options; the service methods answer at once, with an error, or later.
Init ==
    RootScope(WithArguments(
        Pool(<<DescV("S")>>, {DescV("T"), DescV("P")}, {"a"}, {"i"},
             {Undef, OptV("x")}, {EmptyLiteral},
             {"sync", "syncerr", "later"}, FALSE),
        LifecycleArguments("a")))

Spec == Init /\ [][Next]_vars

\* Resolution in a tree of scopes: no chains.
NextResolve ==
    \/ RegisterStep
    \/ RequireStep
    \/ GetServicesStep
    \/ InitializeStep
    \/ MakeSubScopeStep
    \/ MakeScopeStep

\* A root scope 'o' made with { a: [S, O] }: a singleton of any scope and a
\* singleton of the scope named 'o'.  The client registers them again, and
\* makes scopes named 'i' under the root and apart.
InitSingletons ==
    RootScope(Pool(<<DescV("S"), DescV("O")>>, {DescV("S"), DescV("O")},
                   {"a"}, {"i"}, {Undef}, {EmptyLiteral}, {"sync"}, FALSE))

SpecSingletons == InitSingletons /\ [][NextResolve]_vars

\* A root scope 'o' made with { a: [S] }; the client registers a singleton
\* of the scope named 'o' and a transient class, on the root and on the
\* scopes it makes.
InitRegistrations ==
    RootScope(Pool(<<DescV("S")>>, {DescV("O"), DescV("T")},
                   {"a"}, {"i"}, {Undef}, {EmptyLiteral}, {"sync"}, FALSE))

SpecRegistrations == InitRegistrations /\ [][NextResolve]_vars

\* The chains of callService over the lists of the root and its sub-scopes.
NextChains ==
    \/ RegisterStep
    \/ MakeSubScopeStep
    \/ CallServiceStep
    \/ TickStep
    \/ CallbackStep

SpecChains == Init /\ [][NextChains]_vars

\* A root scope 'o' made with { a: [T] }: a transient class.  The client
\* registers it again, and a class that is transient and static, and a
\* singleton.
InitTransient ==
    RootScope(Pool(<<DescV("T")>>, {DescV("T"), DescV("Y"), DescV("S")},
                   {"a"}, {"i"}, {Undef}, {EmptyLiteral}, {"sync"}, FALSE))

SpecTransient == InitTransient /\ [][NextResolve]_vars

\* A root scope 'o' made with { a: [P, Y] }: a static object, and a function
\* that is static and transient.  The client registers a static function, a
\* static function of the scopes named 'i', and a transient class.
InitStatic ==
    RootScope(Pool(<<DescV("P"), DescV("Y")>>, {DescV("X"), DescV("Z"), DescV("T")},
                   {"a"}, {"i"}, {Undef}, {EmptyLiteral}, {"sync"}, FALSE))

SpecStatic == InitStatic /\ [][NextResolve]_vars

\* A root scope 'o' made with { a: [Z] }: a static singleton of the scopes
\* named 'i'.  The client registers singletons of the scopes named 'o' and
\* 'i' and a transient class of the scopes named 'o', on the root, on its
\* sub-scopes 'i' and on scopes 'i' made apart from it.
InitAffinity ==
    RootScope(Pool(<<DescV("Z")>>, {DescV("O"), DescV("I"), DescV("J")},
                   {"a"}, {"i"}, {Undef}, {EmptyLiteral}, {"sync"}, FALSE))

SpecAffinity == InitAffinity /\ [][NextResolve]_vars

\* A root scope 'o' made with { a: [S] }; the client asks for 'a' and for
\* 'toString', a name under which nothing is ever listed.
InitNames ==
    RootScope(Pool(<<DescV("S")>>, {DescV("T")}, {"a", "toString"}, {"i"},
                   {Undef}, {EmptyLiteral}, {"sync"}, FALSE))

SpecNames == InitNames /\ [][NextResolve]_vars

\* A root scope 'o' made with { a: [W] }: a class whose instances have no
\* method.  The client registers it again, and a class whose instances have
\* the method, and calls the services.
InitSkips ==
    RootScope(Pool(<<DescV("W")>>, {DescV("W"), DescV("S")}, {"a"}, {"i"},
                   {Undef}, {EmptyLiteral}, {"sync", "syncerr", "later"}, FALSE))

SpecSkips == InitSkips /\ [][NextChains]_vars

\* The chains of callService and the executions of the lifecycle functions,
\* side by side on the one queue of process.nextTick.
NextSerial ==
    \/ CallServiceStep
    \/ TickStep
    \/ CallbackFailStep
    \/ LifecycleStep
    \/ RunStep
    \/ TickRunStep
    \/ CallbackRunStep

\* A root scope 'o' made with { a: [S, T] }: a singleton and a transient
\* class, both with the method.  The client calls the services and builds
\* and runs lifecycle functions; the methods and the functions answer at
\* once, with an error, or later.
InitSerial ==
    RootScope(WithArguments(
        Pool(<<DescV("S"), DescV("T")>>, {}, {"a"}, {"i"},
             {Undef}, {EmptyLiteral}, {"sync", "syncerr", "later"}, FALSE),
        {<<StrV("a"), StrV("m")>>, <<FnV(1), StrV("a"), StrV("m")>>}))

SpecSerial == InitSerial /\ [][NextSerial]_vars

\* A root scope 'o' made with {}.  The client makes scopes named 'i' under
\* it and apart, registers a singleton under the names of the scopes, and
\* asks for those names.
InitSelf ==
    RootScope(Pool(<<>>, {DescV("S")}, {"o", "i"}, {"i"}, {Undef},
                   {EmptyLiteral}, {"sync"}, FALSE))

SpecSelf == InitSelf /\ [][NextResolve]_vars

\* A root scope 'o' made with { a: [S] }.  The client makes sub-scopes and
\* registers a transient class, on the root and on the sub-scopes, under
\* 'a' and under 'b', a name the root was not made with.
InitFrames ==
    RootScope(Pool(<<DescV("S")>>, {DescV("T")}, {"a", "b"}, {"i"}, {Undef},
                   {EmptyLiteral}, {"sync"}, FALSE))

SpecFrames == InitFrames /\ [][NextResolve]_vars

\* Scopes made, made again, and asked for their services.
NextRescope ==
    \/ RequireStep
    \/ MakeSubScopeStep
    \/ MakeScopeStep

\* A root scope 'o' made with { a: [S] }.  The client makes scopes named
\* 'i' and '' under it and apart, with the services map {}, and calls
\* scope() and makeSubScope again on objects that are scopes already.
InitRescope ==
    RootScope(Pool(<<DescV("S")>>, {}, {"a"}, {"", "i"}, {Undef},
                   {EmptyLiteral}, {"sync"}, TRUE))

SpecRescope == InitRescope /\ [][NextRescope]_vars

\* Lifecycle functions built on the root, and run.
NextLifecycle ==
    \/ RegisterStep
    \/ LifecycleStep
    \/ RunStep
    \/ TickRunStep
    \/ CallbackRunStep

\* A root scope 'o' made with { a: [T, S] }: a transient class and a
\* singleton, both with the method.  The client registers the transient
\* class again, builds lifecycle functions from a pair, from a function
\* and a pair, and from two pairs around a function, and runs them with a
\* context; the steps answer at once, or later with or
\* without an error.
InitLifecycle ==
    RootScope(WithArguments(
        Pool(<<DescV("T"), DescV("S")>>, {DescV("T")}, {"a"}, {"i"},
             {OptV("x")}, {EmptyLiteral}, {"sync", "later"}, FALSE),
        {<<StrV("a"), StrV("m")>>, <<FnV(1), StrV("a"), StrV("m")>>,
         <<StrV("a"), StrV("m"), FnV(1), StrV("a"), StrV("m")>>}))

SpecLifecycle == InitLifecycle /\ [][NextLifecycle]_vars

\* The same operations, and register.
NextEmpty ==
    \/ RegisterStep
    \/ CallServiceStep
    \/ TickStep
    \/ CallbackStep
    \/ LifecycleStep
    \/ RunStep
    \/ TickRunStep
    \/ CallbackRunStep

\* A root scope 'o' made with {}: nothing is listed under 'a' until the
\* client registers a singleton there, and nothing is ever listed under
\* 'toString'.  The client calls the services of both names and builds
\* lifecycle functions from no arguments, from a function and from either
\* name.
InitEmpty ==
    RootScope(WithArguments(
        Pool(<<>>, {DescV("S")}, {"a", "toString"}, {"i"},
             {Undef}, {EmptyLiteral}, {"sync", "later"}, FALSE),
        {<<>>, <<FnV(1)>>, <<StrV("a"), StrV("m")>>, <<StrV("toString"), StrV("m")>>}))

SpecEmpty == InitEmpty /\ [][NextEmpty]_vars

\* Resolution on the root and its sub-scopes.
NextInject ==
    \/ RegisterStep
    \/ RequireStep
    \/ GetServicesStep
    \/ MakeSubScopeStep

\* A root scope 'o' made with { a: [J] }: a transient class that injects
\* 'b' and 'o' into its constructor.  The client registers a singleton
\* without an inject list, under 'a' and under 'b', and asks for both names
\* with and without options.
InitInject ==
    RootScope(Pool(<<DescV("J")>>, {DescV("S")}, {"a", "b"}, {"i"},
                   {Undef, OptV("x")}, {EmptyLiteral}, {"sync"}, FALSE))

SpecInject == InitInject /\ [][NextInject]_vars

\* A root scope 'o' made with { a: [P, Q] }: a plain object and a singleton
\* class, both with the property dep to be injected with the service 'b'.
\* The client registers a singleton and a transient class, under 'a' and
\* under 'b', on the root and on its sub-scopes.
InitProperties ==
    RootScope(Pool(<<DescV("P"), DescV("Q")>>, {DescV("S"), DescV("T")},
                   {"a", "b"}, {"i"}, {Undef}, {EmptyLiteral}, {"sync"}, FALSE))

SpecProperties == InitProperties /\ [][NextInject]_vars

\* The registry alone: scopes made, registrations, and initialize.
NextInitialize ==
    \/ RegisterStep
    \/ InitializeStep
    \/ MakeSubScopeStep
    \/ MakeScopeStep

\* A root scope 'o' made with { a: [S, O] }: a class of any scope and a
\* class of the scopes named 'o', both with an init hook.  The client
\* registers a class of the scopes named 'i' and a class whose scope is the
\* empty string, makes sub-scopes 'i', makes scopes 'i' with the services
\* map {} or { a: [I, S] } or with none, and calls initialize.
InitInitialize ==
    RootScope(Pool(<<DescV("S"), DescV("O")>>, {DescV("I"), DescV("E")},
                   {"a"}, {"i"}, {Undef},
                   {EmptyLiteral, Lit("a", <<DescV("I"), DescV("S")>>)},
                   {"sync"}, FALSE))

SpecInitialize == InitInitialize /\ [][NextInitialize]_vars

\* A root scope 'o' made with { a: [S, W, T] }: between two classes with
\* the method, a class whose instances have none.  The client calls the
\* services, and builds lifecycle functions from two functions, and for the
\* method of the services, and runs them; the methods and the functions
\* answer at once, with an error, or later.
InitYield ==
    RootScope(WithArguments(
        Pool(<<DescV("S"), DescV("W"), DescV("T")>>, {}, {"a"}, {"i"},
             {Undef}, {EmptyLiteral}, {"sync", "syncerr", "later"}, FALSE),
        {<<FnV(1), FnV(2)>>, <<StrV("a"), StrV("m")>>}))

SpecYield == InitYield /\ [][NextSerial]_vars

\* Every way in which the client has services resolved: require,
\* getServices, callService and lifecycle, on the root and its sub-scopes,
\* with register in between.
NextCaches ==
    \/ RegisterStep
    \/ RequireStep
    \/ GetServicesStep
    \/ MakeSubScopeStep
    \/ CallServiceStep
    \/ TickStep
    \/ LifecycleStep
    \/ RunStep
    \/ TickRunStep

\* A root scope 'o' made with { a: [S, T] }: a singleton and a transient
\* class.  The client registers a function that is static and transient.
\* The methods call back before they return.
InitCaches ==
    RootScope(WithArguments(
        Pool(<<DescV("S"), DescV("T")>>, {DescV("Y")}, {"a"}, {"i"},
             {Undef}, {EmptyLiteral}, {"sync"}, FALSE),
        {<<StrV("a"), StrV("m")>>}))

SpecCaches == InitCaches /\ [][NextCaches]_vars

\* A root scope 'o' made with { a: [O, R] }: two singletons of the scope
\* named 'o', the second of which injects 'b' into its constructor and into
\* a property.  The client registers a singleton under 'a' and under 'b',
\* on the root and on its sub-scopes, and resolves with and without
\* options.
InitOwner ==
    RootScope(Pool(<<DescV("O"), DescV("R")>>, {DescV("S")}, {"a", "b"}, {"i"},
                   {Undef, OptV("x")}, {EmptyLiteral}, {"sync"}, FALSE))

SpecOwner == InitOwner /\ [][NextInject]_vars

\* A root scope 'o' made with { a: [S] }.  The client makes scopes named
\* 'i' under it and apart, with { a: [O] } and with { b: [O] }, O being a singleton of the scope named 'o': under 'a' the
\* root lists another class, under 'b' it has no list.  The client also
\* registers O.
InitUnlisted ==
    RootScope(Pool(<<DescV("S")>>, {DescV("O")}, {"a", "b"}, {"i"}, {Undef},
                   {Lit("a", <<DescV("O")>>), Lit("b", <<DescV("O")>>)},
                   {"sync"}, FALSE))

\* Scopes made with services of their own, and resolution on them.
NextUnlisted ==
    \/ RegisterStep
    \/ RequireStep
    \/ GetServicesStep
    \/ MakeScopeStep

SpecUnlisted == InitUnlisted /\ [][NextUnlisted]_vars

\* A root scope 'o' made with { a: [S, I] }: a singleton, and a singleton
\* of the scopes named 'i', which the root cannot resolve and its sub-scopes
\* 'i' can.  The client registers a transient class and calls the services.
InitRaises ==
    RootScope(Pool(<<DescV("S"), DescV("I")>>, {DescV("T")}, {"a"}, {"i"},
                   {Undef}, {EmptyLiteral}, {"sync", "later"}, FALSE))

SpecRaises == InitRaises /\ [][NextChains]_vars

\* The chains and the executions, with methods and functions that may call
\* their callback more than once.
NextTwice ==
    \/ CallServiceStep
    \/ TickStep
    \/ CallbackStep
    \/ LifecycleStep
    \/ RunStep
    \/ TickRunStep
    \/ CallbackRunStep
    \/ \E i \in 1..Len(chains), p \in 1..MaxOps, err \in Errors \cup {Undef} :
            CallbackAgain(i, p, err)
    \/ \E i \in 1..Len(runs), p \in 1..MaxOps, err \in Errors \cup {Undef} :
            CallbackRunAgain(i, p, err)

\* A root scope 'o' made with { a: [S, T] }, both with the method.  The
\* client calls the services, and builds a lifecycle function for them and
\* runs it; a method calls its callback before it returns or later, with or
\* without an error, and may call it again.
InitTwice ==
    RootScope(WithArguments(
        Pool(<<DescV("S"), DescV("T")>>, {}, {"a"}, {"i"},
             {Undef}, {EmptyLiteral}, {"sync", "later"}, FALSE),
        {<<StrV("a"), StrV("m")>>}))

SpecTwice == InitTwice /\ [][NextTwice]_vars

\* The chains and the executions when process.nextTick runs every callback
\* it was handed, and every method and function that was invoked calls its
\* callback in the end, with or without an error.
SpecFair ==
    /\ InitTwice
    /\ [][NextSerial]_vars
    /\ WF_vars(TickStep \/ TickRunStep)
    /\ \A i \in 1..MaxChains :
          /\ WF_vars(\E err \in Failures \cup {Undef} : Callback(i, err))
          /\ WF_vars(\E err \in Failures \cup {Undef} : CallbackRun(i, err))

\* A root scope 'o' made with { a: [S, T] }, both with the method.  The
\* client registers S again, resolves and calls the services with one
\* options object or another, and builds a lifecycle function for them
\* that it runs with one context or another.
InitContexts ==
    RootScope(WithArguments(
        Pool(<<DescV("S"), DescV("T")>>, {DescV("S")}, {"a"}, {"i"},
             {OptV("x"), OptV("y")}, {EmptyLiteral}, {"sync", "later"}, FALSE),
        {<<StrV("a"), StrV("m")>>}))

SpecInterleaved == InitContexts /\ [][NextSerial]_vars

\* A root scope 'o' made with { a: [P], b: [S] }: a plain object whose
\* property dep is to be injected with the service 'b', and a singleton
\* class under 'b'.  The client makes scopes under the root, registers the
\* plain object again, and asks for 'a'.
InitShared ==
    InitFrom(ScopeWithLiteral(Blank, "o", 1,
                              [Lit("a", <<DescV("P")>>) EXCEPT !["b"] = <<DescV("S")>>],
                              NoScope).rw,
             Pool(<<DescV("P")>>, {DescV("P")}, {"a"}, {"i"}, {Undef},
                  {EmptyLiteral}, {"sync"}, FALSE))

SpecShared == InitShared /\ [][NextInject]_vars

\* A root scope 'o' made with { a: [S] }: a singleton that depends on
\* nothing.  The client registers, under 'a' and under 'b', a singleton
\* class whose constructor is injected with 'a' and a plain object whose
\* property dep is injected with 'b', so that a descriptor may come to
\* depend on itself, directly or through the other.
InitCycle ==
    RootScope(Pool(<<DescV("S")>>, {DescV("K"), DescV("P")}, {"a", "b"}, {"i"},
                   {Undef}, {EmptyLiteral}, {"sync"}, FALSE))

SpecCycle == InitCycle /\ [][NextInject]_vars

\* Resolution with options on the root, by require, getServices and
\* callService.
NextOptions ==
    \/ RegisterStep
    \/ RequireStep
    \/ GetServicesStep
    \/ CallServiceStep
    \/ TickStep

SpecOptions == InitContexts /\ [][NextOptions]_vars

---------------------------------------------------------------------------
(* What the claims speak of. *)

\* hist[i] is a resolution that returned
Resolved(i) ==
    /\ hist[i].op \in {"require", "getServices", "callService"}
    /\ hist[i].ex = NoEx

\* the positions of hist[i]: a service class each, and what was returned for it
Positions(i) == (1..Len(hist[i].cls)) \cap (1..Len(hist[i].res))

\* the index, in the list of its service name, of position p of hist[i]
SlotOf(i, p) == hist[i].at + p - 1

\* new ServiceClass(...) is what resolves c
Constructible(c) == IsFunction(c) /\ ~IsStaticFlag(c)

\* c is a singleton of scope s itself
LocalSingleton(c, s) ==
    /\ Constructible(c)
    /\ ~IsTransient(c)
    /\ Affinity(c) = "" \/ Affinity(c) = scopes[s].scopeName

\* the slots (service name, index) of the cache of s that hold v
SlotsHolding(s, v) ==
    UNION {{<<name, index>> :
               index \in {x \in 1..Len(scopes[s].instances[name].slots) :
                              scopes[s].instances[name].slots[x] = v}} :
           name \in Names}

\* the operation that made the n-th constructor call
MadeBy(n) == CHOOSE i \in 1..Len(hist) : hist[i].h0 < n /\ n <= hist[i].h1

\* the scope that owns the singletons of c asked for on s: the nearest scope
\* named as the affinity of c, from s upwards
Owner(c, s) == Walk(Store, s, Affinity(c))

\* c is a singleton of a proper ancestor of s
AncestorOwned(c, s) ==
    /\ Constructible(c)
    /\ ~IsTransient(c)
    /\ Affinity(c) # ""
    /\ Owner(c, s) \notin {NoScope, s}

\* the value scope s holds in the slot (name, index) of its cache
Cached(s, name, index) == SlotGet(scopes[s].instances[name].slots, index)

\* s and t list their services under name in one and the same array
SameList(s, t, name) ==
    /\ scopes[s].services[name] # NoArray
    /\ scopes[s].services[name] = scopes[t].services[name]

\* the service classes the register calls among hist[1..j] have appended to
\* the array in which s lists its services under name, oldest first
RECURSIVE Registered(_, _, _)
Registered(s, name, j) ==
    IF j = 0 THEN <<>>
    ELSE Registered(s, name, j - 1) \o
         (IF /\ hist[j].op = "register" /\ hist[j].ex = NoEx
             /\ hist[j].name = name /\ SameList(s, hist[j].scope, name)
          THEN <<hist[j].c>> ELSE <<>>)

\* the service classes s lists under name when hist[j] is called: those the
\* root scope was made with, when s lists in the array of that literal, and
\* those registered since
ListBefore(s, name, j) ==
    (IF name = "a" /\ SameList(s, 1, name) THEN pool.initial ELSE <<>>)
    \o Registered(s, name, j - 1)

\* v is what resolving the service class c gives: an object its constructor
\* built, or c itself when nothing constructs it
Resolves(v, c) ==
    IF Constructible(c)
    THEN v.k = "inst" /\ v.d = c.d
    ELSE v = c

\* neither of s and t is the other or an ancestor of the other
Unrelated(s, t) == s # t /\ ~OnChain(s, t) /\ ~OnChain(t, s)

\* c is a plain object, or a function flagged isStatic
StaticDescriptor(c) == c.k = "desc" /\ (~ServiceClasses[c.d].fn \/ ServiceClasses[c.d].isStatic)

\* c is a singleton of a scope that is neither s nor found from s upwards
Unreachable(c, s) ==
    /\ c.k = "desc"
    /\ ~ServiceClasses[c.d].transient
    /\ ServiceClasses[c.d].scope # ""
    /\ Walk(Store, s, ServiceClasses[c.d].scope) = NoScope

\* the positions of the list of hist[i] that hold such a singleton
UnreachableAt(i) ==
    {p \in 1..Len(hist[i].cls) : Unreachable(hist[i].cls[p], hist[i].scope)}

\* the steps, among the first n, whose service has the method of the chain
StepsWithMethod(ch, n) == {p \in 1..n : Exposes(ch.services[p], ch.method)}

\* the k-th of them
NthStep(ch, n, k) ==
    CHOOSE p \in StepsWithMethod(ch, n) :
        Cardinality({q \in StepsWithMethod(ch, n) : q < p}) = k - 1

\* the errors the methods of the chain have passed to their callbacks
ErrorsOf(ch) == {k \in 1..Len(ch.answers) : Truthy(ch.answers[k])}

---------------------------------------------------------------------------
(* C1 *)

---------------------------------------------------------------------------
(* C2 *)

---------------------------------------------------------------------------
(* C4 *)

---------------------------------------------------------------------------
(* C5 *)

---------------------------------------------------------------------------
(* C6 *)

\* C6 as stated: two scopes neither of which is an ancestor of the other
\* never return the same instance for a singleton class.
C6_DistinctAcrossScopes ==
    \A i, j \in 1..Len(hist) :
        Resolved(i) /\ Resolved(j) /\ Unrelated(hist[i].scope, hist[j].scope) =>
            \A p \in Positions(i), q \in Positions(j) :
                /\ hist[i].cls[p] = hist[j].cls[q]
                /\ Constructible(hist[i].cls[p])
                /\ ~IsTransient(hist[i].cls[p])
                => hist[i].res[p] # hist[j].res[q]

\* C6, amended: an instance a scope holds in its cache was built for the
\* scope itself or for an ancestor of it named as the affinity of the class;
\* so two scopes neither of which is an ancestor of the other return distinct
\* instances for a singleton class of their own, and share an instance only
\* when it belongs to an ancestor of both.
C6_SharedOnlyThroughAncestor ==
    /\ \A s \in ScopeIds, name \in Names :
        \A index \in 1..Len(scopes[s].instances[name].slots) :
            LET v == Cached(s, name, index)
            IN v.k = "inst" =>
                /\ OnChain(heap[v.n].scope, s)
                /\ heap[v.n].scope # s =>
                    scopes[heap[v.n].scope].scopeName = Affinity(DescV(v.d))
    /\ \A i, j \in 1..Len(hist) :
        Resolved(i) /\ Resolved(j) /\ Unrelated(hist[i].scope, hist[j].scope) =>
            \A p \in Positions(i), q \in Positions(j) :
                /\ hist[i].cls[p] = hist[j].cls[q]
                /\ LocalSingleton(hist[i].cls[p], hist[i].scope)
                /\ LocalSingleton(hist[j].cls[q], hist[j].scope)
                => hist[i].res[p] # hist[j].res[q]

\* Two sub-scopes of the root have each resolved the same list: they hold
\* distinct instances of the singleton of any scope, and the same instance
\* of the singleton of the root.
C6_Witness ==
    \E i, j \in 1..Len(hist) :
        /\ Resolved(i) /\ Resolved(j)
        /\ Unrelated(hist[i].scope, hist[j].scope)
        /\ \E p \in Positions(i), q \in Positions(j) :
            /\ hist[i].cls[p] = hist[j].cls[q]
            /\ LocalSingleton(hist[i].cls[p], hist[i].scope)
            /\ LocalSingleton(hist[j].cls[q], hist[j].scope)
            /\ hist[i].res[p] # hist[j].res[q]
        /\ \E p \in Positions(i), q \in Positions(j) :
            /\ AncestorOwned(hist[i].cls[p], hist[i].scope)
            /\ hist[i].res[p] = hist[j].res[q]

---------------------------------------------------------------------------
(* C3 *)

\* C3 as stated: two calls of require, or of getServices, on one scope
\* return distinct values at a position that lists a transient class.
C3_TransientAlwaysDistinct ==
    \A i, j \in 1..Len(hist) :
        /\ i < j
        /\ Resolved(i) /\ Resolved(j)
        /\ hist[i].op = hist[j].op
        /\ hist[i].scope = hist[j].scope /\ hist[i].name = hist[j].name
        => \A p \in Positions(i), q \in Positions(j) :
            /\ SlotOf(i, p) = SlotOf(j, q)
            /\ hist[i].cls[p] = hist[j].cls[q]
            /\ IsTransient(hist[i].cls[p])
            => hist[i].res[p] # hist[j].res[q]

\* C3, amended: at a position that lists a transient class that is a
\* function not flagged isStatic, a resolution returns an object this very
\* call has built; so no two returned values of such positions, of one call
\* or of two, are the same object.
C3_TransientBuiltAnew ==
    /\ \A i \in 1..Len(hist) :
        Resolved(i) =>
            \A p \in Positions(i) :
                IsTransient(hist[i].cls[p]) /\ Constructible(hist[i].cls[p]) =>
                    /\ hist[i].res[p].k = "inst"
                    /\ hist[i].res[p].d = hist[i].cls[p].d
                    /\ hist[i].h0 < hist[i].res[p].n
                    /\ hist[i].res[p].n <= hist[i].h1
    /\ \A i, j \in 1..Len(hist) :
        Resolved(i) /\ Resolved(j) =>
            \A p \in Positions(i), q \in Positions(j) :
                /\ <<i, p>> # <<j, q>>
                /\ IsTransient(hist[i].cls[p]) /\ Constructible(hist[i].cls[p])
                => hist[i].res[p] # hist[j].res[q]

\* Two requires in a row on one scope, and two getServices, have resolved
\* the same transient class to different objects.
C3_Witness ==
    /\ \E i \in 1..(Len(hist) - 1) :
        /\ hist[i].op = "require" /\ Resolved(i) /\ Len(hist[i].cls) = 1
        /\ hist[i + 1].op = "require" /\ Resolved(i + 1)
        /\ hist[i + 1].scope = hist[i].scope /\ hist[i + 1].name = hist[i].name
        /\ IsTransient(hist[i].cls[1]) /\ Constructible(hist[i].cls[1])
        /\ hist[i + 1].res # hist[i].res
    /\ \E i \in 1..(Len(hist) - 1) :
        /\ hist[i].op = "getServices" /\ Resolved(i) /\ Len(hist[i].cls) >= 1
        /\ hist[i + 1].op = "getServices" /\ Resolved(i + 1)
        /\ hist[i + 1].scope = hist[i].scope /\ hist[i + 1].name = hist[i].name
        /\ IsTransient(hist[i].cls[1]) /\ Constructible(hist[i].cls[1])
        /\ hist[i + 1].res[1] # hist[i].res[1]

---------------------------------------------------------------------------
(* C7 *)

---------------------------------------------------------------------------
(* C8 *)

\* C8 as stated: a require or a getServices for a name under which the
\* scope lists nothing raises no error, returns null (require) or an empty
\* array (getServices), and leaves the services maps, the arrays, the caches
\* and the constructed objects as they were.
C8_NothingRegistered ==
    [][ LET called == hist'[Len(hist')]
        IN /\ Len(hist') = Len(hist) + 1
           /\ called.op \in {"require", "getServices"}
           /\ Listed(called.scope, called.name) = <<>>
           => /\ called.ex = NoEx
              /\ called.res = IF called.op = "require" THEN <<Null>> ELSE <<>>
              /\ scopes' = scopes /\ arr' = arr /\ heap' = heap ]_vars

\* The same for the names that Object.prototype does not define: for them
\* the code does what C8 says.
C8_NothingRegisteredOwnName ==
    [][ LET called == hist'[Len(hist')]
        IN /\ Len(hist') = Len(hist) + 1
           /\ called.op \in {"require", "getServices"}
           /\ Listed(called.scope, called.name) = <<>>
           /\ called.name \notin Inherited
           => /\ called.ex = NoEx
              /\ called.res = IF called.op = "require" THEN <<Null>> ELSE <<>>
              /\ scopes' = scopes /\ arr' = arr /\ heap' = heap ]_vars

\* A require and a getServices have been called for a name under which
\* their scope lists nothing and that Object.prototype does not define.
C8_OwnNameAsked ==
    \E i, j \in 1..Len(hist) :
        /\ hist[i].op = "require" /\ hist[i].cls = <<>> /\ hist[i].res = <<Null>>
        /\ hist[j].op = "getServices" /\ hist[j].cls = <<>> /\ hist[j].ex = NoEx
        /\ hist[i].name \notin Inherited /\ hist[j].name \notin Inherited

---------------------------------------------------------------------------
(* C9 *)

---------------------------------------------------------------------------
(* C10 *)

\* C10: a callService chain works on the instances getServices returned for
\* the name, which resolve the listed service classes in the order of
\* registration; it has invoked the method on those that have it, among the
\* steps reached so far, in that order, each with the options of the call;
\* done has been called at most once; once the last step is over and no
\* callback was passed an error, done has been called with no arguments, and
\* it is called with no arguments in no other case.
C10_InOrderSameOptionsThenDone ==
    \A c \in 1..Len(chains) :
        LET ch == chains[c]
            called == hist[ch.op]
            L == ListBefore(called.scope, called.name, ch.op)
            over == ch.n = Len(ch.services) /\ ch.pc # "inflight" /\ ErrorsOf(ch) = {}
        IN /\ called.op = "callService"
           /\ ch.services = called.res
           /\ Len(ch.services) = Len(L)
           /\ \A p \in 1..Len(L) : Resolves(ch.services[p], L[p])
           /\ Len(ch.invoked) = Cardinality(StepsWithMethod(ch, ch.n))
           /\ \A k \in 1..Len(ch.invoked) :
                /\ ch.invoked[k].service = ch.services[NthStep(ch, ch.n, k)]
                /\ ch.invoked[k].options = called.options
           /\ Len(ch.dones) <= 1
           /\ over <=> ch.dones = << <<>> >>

\* A chain of two steps or more was called with options, the callback of
\* every step has fired without an error, and done has been called with no
\* arguments.
C10_Witness ==
    \E c \in 1..Len(chains) :
        /\ Len(chains[c].invoked) >= 2
        /\ chains[c].options = OptV("x")
        /\ Len(chains[c].answers) = Len(chains[c].invoked)
        /\ chains[c].dones = << <<>> >>

---------------------------------------------------------------------------
(* C11 *)

\* the steps of the chain that were reached and whose instance does not
\* have the method
Skipped(ch) == {p \in 1..ch.n : ~Exposes(ch.services[p], ch.method)}

\* C11: in a callService chain, no method is invoked for a step whose
\* instance does not have the method; after such a step the chain goes on to
\* the next step (which waits on the next tick or has been reached), and
\* after such a last step done has been called with no arguments when no
\* callback was passed an error: a chain all of whose callbacks came without
\* an error, and whose last step is over, has called done once, with no
\* arguments.
C11_SkippedIsSuccess ==
    \A c \in 1..Len(chains) :
        LET ch == chains[c]
        IN /\ \A p \in Skipped(ch) :
                /\ \A k \in 1..Len(ch.invoked) : ch.invoked[k].step # p
                /\ p < Len(ch.services) => ch.n > p \/ ch.pc = "tick"
                /\ p = Len(ch.services) /\ ErrorsOf(ch) = {} => ch.dones = << <<>> >>
                /\ p = ch.n => ch.pc \in {"tick", "done"}
           /\ ch.n = Len(ch.services) /\ ch.pc # "inflight" /\ ErrorsOf(ch) = {}
                => ch.dones = << <<>> >>

\* A chain of the one instance without the method has called done with no
\* arguments; and so has a chain of three steps whose first and last
\* instances are without the method, after it invoked the method of the
\* second.
C11_Witness ==
    /\ \E c \in 1..Len(chains) :
        /\ Len(chains[c].services) = 1
        /\ Skipped(chains[c]) = {1}
        /\ chains[c].dones = << <<>> >>
    /\ \E c \in 1..Len(chains) :
        /\ Len(chains[c].services) = 3
        /\ Skipped(chains[c]) = {1, 3}
        /\ Len(chains[c].invoked) = 1
        /\ chains[c].dones = << <<>> >>

---------------------------------------------------------------------------
(* C12 *)

\* x, a chain of callService or an execution of a lifecycle function, has
\* got at most one error from its callbacks; when it has got one, that was
\* the last callback to fire, no step was invoked after the one that passed
\* it, nothing is scheduled, and done has been called once, with that value
\* as its one argument; and done has got no other argument than such a value
AbortsOnError(x, waiting) ==
    /\ \A k \in ErrorsOf(x) :
        /\ k = Len(x.answers)
        /\ Len(x.invoked) = k
        /\ x.invoked[k].step = x.n
        /\ x.pc = "done"
        /\ ~waiting
        /\ x.dones = << <<x.answers[k]>> >>
    /\ \A d \in 1..Len(x.dones) :
        x.dones[d] # <<>> =>
            /\ x.answers # <<>>
            /\ x.dones[d] = <<x.answers[Len(x.answers)]>>
            /\ Truthy(x.answers[Len(x.answers)])

\* process.nextTick holds the callback t
Waiting(t) == \E k \in 1..Len(ticks) : ticks[k] = t

\* C12: in every callService chain and in every execution of a lifecycle
\* function, a step that passes an error to its callback ends it: no step is
\* invoked after that one, then or later, and done is called once with that
\* very value.
C12_ErrorAbortsVerbatim ==
    /\ \A c \in 1..Len(chains) : AbortsOnError(chains[c], Waiting(callNextService(c)))
    /\ \A r \in 1..Len(runs) : AbortsOnError(runs[r], Waiting(callNextStep(r)))

\* A chain of two instances whose first method, answering later, has passed
\* the second of the error values, and an execution of three steps whose
\* second step has passed an error: done has got each value, and the steps
\* after them were not invoked.
C12_Witness ==
    /\ \E c \in 1..Len(chains) :
        /\ Len(chains[c].services) = 2
        /\ chains[c].answers = <<[k |-> "err", d |-> "f", n |-> 0]>>
        /\ chains[c].dones = << <<[k |-> "err", d |-> "f", n |-> 0]>> >>
        /\ Len(chains[c].invoked) = 1
    /\ \E r \in 1..Len(runs) :
        /\ Len(runs[r].methodArray) = 3
        /\ Len(runs[r].answers) = 2
        /\ ErrorsOf(runs[r]) = {2}
        /\ runs[r].dones = << <<runs[r].answers[2]>> >>
        /\ Len(runs[r].invoked) = 2

---------------------------------------------------------------------------
(* C16 *)

\* the steps that seq[c], a chain or an execution, has invoked, and the
\* callbacks of it that have fired; none when it has not started
InvokedOf(seq, c) == IF c <= Len(seq) THEN Len(seq[c].invoked) ELSE 0
AnsweredOf(seq, c) == IF c <= Len(seq) THEN Len(seq[c].answers) ELSE 0

\* C16: one step of a callService chain, or of an execution of a lifecycle
\* function, invokes at most one step of it, and only when the callback of
\* every step it invoked before has fired; so at most one step of it is
\* invoked and not yet answered, which is when it is in flight; and the
\* steps are invoked in increasing order.
C16_StepsNeverOverlap ==
    [][ /\ \A c \in 1..Len(chains') :
            /\ Len(chains'[c].invoked) <= InvokedOf(chains, c) + 1
            /\ Len(chains'[c].invoked) > InvokedOf(chains, c) =>
                    AnsweredOf(chains, c) = InvokedOf(chains, c)
            /\ Len(chains'[c].invoked) - Len(chains'[c].answers) \in {0, 1}
            /\ chains'[c].pc = "inflight" <=>
                    Len(chains'[c].invoked) = Len(chains'[c].answers) + 1
            /\ \A k \in 2..Len(chains'[c].invoked) :
                    chains'[c].invoked[k - 1].step < chains'[c].invoked[k].step
        /\ \A r \in 1..Len(runs') :
            /\ Len(runs'[r].invoked) <= InvokedOf(runs, r) + 1
            /\ Len(runs'[r].invoked) > InvokedOf(runs, r) =>
                    AnsweredOf(runs, r) = InvokedOf(runs, r)
            /\ Len(runs'[r].invoked) - Len(runs'[r].answers) \in {0, 1}
            /\ runs'[r].pc = "inflight" <=>
                    Len(runs'[r].invoked) = Len(runs'[r].answers) + 1
            /\ \A k \in 1..Len(runs'[r].invoked) : runs'[r].invoked[k].step = k ]_vars

\* A chain and an execution are both under way, each with a step in flight
\* after an earlier step of it was answered.
C16_Witness ==
    /\ \E c \in 1..Len(chains) :
        /\ chains[c].pc = "inflight"
        /\ Len(chains[c].invoked) = 2 /\ Len(chains[c].answers) = 1
    /\ \E r \in 1..Len(runs) :
        /\ runs[r].pc = "inflight"
        /\ Len(runs[r].invoked) = 2 /\ Len(runs[r].answers) = 1

---------------------------------------------------------------------------
(* C13 *)

\* the call that has just been made, when the step is a call of the client
JustCalled(h) == h[Len(h)]

\* The step is a callService for a name among names under which the scope
\* lists nothing, or the call of a lifecycle function that has no steps; and
\* what C13 says of such a call: it has not thrown, done has been called
\* once with no arguments when it returns, and nothing was handed to
\* process.nextTick.
EmptyCallsDone(names) ==
    LET called == JustCalled(hist')
    IN /\ ( /\ Len(hist') = Len(hist) + 1
            /\ called.op = "callService"
            /\ called.name \in names
            /\ Listed(called.scope, called.name) = <<>> )
          => /\ called.ex = NoEx
             /\ Len(chains') = Len(chains) + 1
             /\ chains'[Len(chains')].dones = << <<>> >>
             /\ ticks' = ticks
       /\ ( /\ Len(hist') = Len(hist) + 1
            /\ called.op = "run"
            /\ Len(runs') = Len(runs) + 1
            /\ runs'[Len(runs')].methodArray = <<>> )
          => /\ called.ex = NoEx
             /\ runs'[Len(runs')].dones = << <<>> >>
             /\ ticks' = ticks

\* C13 as stated: a callService for a name under which the scope lists
\* nothing, and a lifecycle function built with no steps, call done with no
\* arguments before they return, and nothing waits for a later tick.
C13_EmptyCallsDoneAtOnce == [][EmptyCallsDone(Names)]_vars

\* The same for the names that Object.prototype does not define: for them
\* the code does what C13 says.
C13_EmptyCallsDoneAtOnceOwnName == [][EmptyCallsDone(Names \ Inherited)]_vars

\* A callService for a name under which nothing is listed, and a lifecycle
\* function built for such a name, have called done with no arguments.
C13_EmptyCalled ==
    /\ \E c \in 1..Len(chains) :
        /\ chains[c].services = <<>>
        /\ chains[c].dones = << <<>> >>
    /\ \E r \in 1..Len(runs) :
        /\ lifecycles[runs[r].fn].arguments = <<StrV("a"), StrV("m")>>
        /\ runs[r].methodArray = <<>>
        /\ runs[r].dones = << <<>> >>

---------------------------------------------------------------------------
(* C14 *)

\* The steps the arguments of the lifecycle function l declare, from
\* argument i on: one for a function, and for a service name and a method
\* name one per service class the scope listed under the name when l was
\* built, in the order of registration.
RECURSIVE Declared(_, _)
Declared(l, i) ==
    IF i > Len(l.arguments) THEN <<>>
    ELSE IF l.arguments[i].k = "fn"
    THEN <<[bare |-> TRUE, f |-> l.arguments[i].n, c |-> Undef, method |-> ""]>>
         \o Declared(l, i + 1)
    ELSE LET L == ListBefore(l.scope, l.arguments[i].d, l.op)
         IN [p \in 1..Len(L) |->
                [bare |-> FALSE, f |-> 0, c |-> L[p],
                 method |-> Argument(l.arguments, i + 1).d]]
            \o Declared(l, i + 2)

\* the step is what the declared step d asks for
Carries(step, d) ==
    /\ step.bare = d.bare
    /\ step.f = d.f
    /\ step.method = d.method
    /\ ~d.bare => Resolves(step.service, d.c)

\* C14: a lifecycle function that was built holds the declared steps, as
\* many and in the declared order; an execution of it has invoked a prefix
\* of them, in that order, each with the context the execution was called
\* with; and it has called done with no arguments exactly when the last step
\* is over and no callback was passed an error, every one of the steps
\* having been invoked and answered by then.
C14_DeclaredOrderExactSteps ==
    /\ \A f \in 1..Len(lifecycles) :
        LET l == lifecycles[f]
            D == Declared(l, 1)
        IN /\ Len(l.methodArray) = Len(D)
           /\ \A p \in 1..Len(D) : Carries(l.methodArray[p], D[p])
    /\ \A r \in 1..Len(runs) :
        LET run == runs[r]
            all == lifecycles[run.fn].methodArray
            over == run.n = Len(all) /\ run.pc # "inflight" /\ ErrorsOf(run) = {}
        IN /\ Len(run.invoked) <= Len(all)
           /\ \A k \in 1..Len(run.invoked) :
                /\ run.invoked[k].step = k
                /\ run.invoked[k].method = all[k]
                /\ run.invoked[k].options = hist[run.op].options
           /\ Len(run.dones) <= 1
           /\ over <=> run.dones = << <<>> >>
           /\ run.dones = << <<>> >> =>
                /\ Len(run.invoked) = Len(Declared(lifecycles[run.fn], 1))
                /\ Len(run.answers) = Len(run.invoked)

\* A function built from two pairs around a function, over a list of two
\* service classes, has run its five steps with a context and called done.
C14_Witness ==
    \E r \in 1..Len(runs) :
        /\ Len(lifecycles[runs[r].fn].arguments) = 5
        /\ Len(runs[r].invoked) = 5
        /\ runs[r].invoked[3].method.bare
        /\ runs[r].invoked[1].method.service # runs[r].invoked[2].method.service
        /\ runs[r].options = OptV("x")
        /\ runs[r].dones = << <<>> >>

---------------------------------------------------------------------------
(* C15 *)

\* C15: an execution works on the steps its function was built with, which
\* are the steps declared when it was built, whatever was registered since;
\* the instances of those steps were built or found by the build, so every
\* execution of the function invokes the same instances; and no constructor
\* call is made by an execution.
C15_StepsFixedAtBuild ==
    /\ \A r \in 1..Len(runs) :
        LET run == runs[r]
            l == lifecycles[run.fn]
        IN /\ run.methodArray = l.methodArray
           /\ Len(run.methodArray) = Len(Declared(l, 1))
           /\ \A k \in 1..Len(run.invoked) :
                /\ run.invoked[k].method = l.methodArray[k]
                /\ run.invoked[k].method.service.k = "inst" =>
                        run.invoked[k].method.service.n <= hist[l.op].h1
           /\ \A p \in 1..Len(l.methodArray) :
                /\ ~l.methodArray[p].bare
                /\ IsTransient(DescV(l.methodArray[p].service.d))
                => /\ hist[l.op].h0 < l.methodArray[p].service.n
                   /\ l.methodArray[p].service.n <= hist[l.op].h1
    /\ \A n \in 1..Len(heap) :
        \E i \in 1..Len(hist) :
            hist[i].op # "run" /\ hist[i].h0 < n /\ n <= hist[i].h1

\* A function was built over a transient class, a service class was then
\* registered under the name, and two executions of the function have both
\* invoked the instance of the build, and no step for the class registered
\* since.
C15_Witness ==
    \E f \in 1..Len(lifecycles), k \in 1..Len(hist), r1, r2 \in 1..Len(runs) :
        /\ r1 < r2
        /\ runs[r1].fn = f /\ runs[r2].fn = f
        /\ lifecycles[f].op < k /\ k < runs[r1].op
        /\ hist[k].op = "register" /\ hist[k].scope = lifecycles[f].scope
        /\ hist[k].ex = NoEx
        /\ lifecycles[f].arguments = <<StrV("a"), StrV("m")>>
        /\ Len(Listed(lifecycles[f].scope, "a")) > Len(lifecycles[f].methodArray)
        /\ runs[r1].invoked # <<>>
        /\ runs[r2].invoked # <<>>
        /\ runs[r1].invoked[1].method = runs[r2].invoked[1].method
        /\ IsTransient(DescV(runs[r1].invoked[1].method.service.d))
        /\ runs[r1].pc = "done" /\ runs[r2].pc = "done"
        /\ Len(runs[r1].invoked) = Len(lifecycles[f].methodArray)

---------------------------------------------------------------------------
(* C17 *)

\* what scope.require(the name of the scope) returns in this state
RequireOwnName(s) == scope_require(Store, s, scopes[s].scopeName, Undef, MaxDepth)

\* C17 as stated: in every reachable state, require of a scope's own name
\* returns the scope itself.
C17_RequiresItself ==
    \A s \in ScopeIds :
        IsScope(s) => ~Threw(RequireOwnName(s)) /\ RequireOwnName(s).v = ScopeV(s)

\* What the code keeps: the list of a scope under its own name begins with
\* the scope itself, and require of the name returns the scope for as long
\* as no register has appended a service class to that list.
C17_RequiresItselfUntilRegistered ==
    \A s \in ScopeIds :
        IsScope(s) =>
            /\ Listed(s, scopes[s].scopeName) # <<>>
            /\ Listed(s, scopes[s].scopeName)[1] = ScopeV(s)
            /\ Registered(s, scopes[s].scopeName, Len(hist)) = <<>> =>
                    ~Threw(RequireOwnName(s)) /\ RequireOwnName(s).v = ScopeV(s)

\* After a register on a sub-scope under another name than its own, the
\* sub-scope has required its own name and got itself.
C17_OwnNameRequired ==
    \E k, j \in 1..Len(hist) :
        /\ k < j
        /\ hist[k].op = "register" /\ hist[k].scope = hist[j].scope
        /\ hist[k].name # scopes[hist[j].scope].scopeName
        /\ scopes[hist[j].scope].parentScope # NoScope
        /\ hist[j].op = "require"
        /\ hist[j].name = scopes[hist[j].scope].scopeName
        /\ hist[j].res = <<ScopeV(hist[j].scope)>>

---------------------------------------------------------------------------
(* C18 *)

\* what require and getServices of name on t return in this state
Answers(t, name) ==
    <<Listed(t, name),
      scope_require(Store, t, name, Undef, MaxDepth).v,
      scope_getServices(Store, t, name, Undef).v>>

\* The step is a register of a name among those that satisfy fresh, and it
\* leaves every scope above or below the registering scope with the lists
\* it had, so that require and getServices on it return what they did.
RegisterIsLocal(fresh) ==
    LET called == JustCalled(hist')
    IN ( /\ Len(hist') = Len(hist) + 1
         /\ called.op = "register"
         /\ fresh \/ Listed(called.scope, called.name) = <<>> )
       => \A t \in ScopeIds \ {called.scope} :
            IsScope(t) /\ (OnChain(t, called.scope) \/ OnChain(called.scope, t)) =>
                \A name \in pool.names : Answers(t, name)' = Answers(t, name)

\* C18 as stated: a register on a scope, whether under a name the scope
\* already lists service classes for or under a new one, leaves the lists
\* of its parent and of its sub-scopes, and what require and getServices
\* return on them, as they were.
C18_RegisterIsLocal == [][RegisterIsLocal(TRUE)]_vars

\* The same for the names under which the registering scope lists nothing
\* yet: for them the code does what C18 says.
C18_RegisterOfNewNameIsLocal == [][RegisterIsLocal(FALSE)]_vars

\* A sub-scope has registered a service class under a name it listed
\* nothing for, and its parent has then required the name and got null.
C18_NewNameRegistered ==
    \E k, j \in 1..Len(hist) :
        /\ k < j
        /\ hist[k].op = "register" /\ hist[k].ex = NoEx
        /\ scopes[hist[k].scope].parentScope = hist[j].scope
        /\ hist[j].op = "require" /\ hist[j].name = hist[k].name
        /\ hist[j].res = <<Null>>
        /\ Listed(hist[k].scope, hist[k].name) = <<hist[k].c>>

---------------------------------------------------------------------------
(* C19 *)

\* The step is a call of scope() or of makeSubScope on an object that is a
\* scope already, under a name among names; and what C19 says of it: the
\* call returns the object and leaves its name, its parent, its services
\* map with the lists in it, and its cache as they were.
RescopeLeavesAlone(names) ==
    LET called == JustCalled(hist')
    IN \A target \in ScopeIds :
        ( /\ Len(hist') = Len(hist) + 1
          /\ called.op \in {"scope", "scopeNoServices", "makeSubScope"}
          /\ called.c = ScopeV(target)
          /\ scopes[target].named
          /\ scopes[target].scopeName \in names )
        => /\ called.ex = NoEx
           /\ called.res = <<ScopeV(target)>>
           /\ scopes'[target] = scopes[target]
           /\ \A name \in Names : Listed(target, name)' = Listed(target, name)

\* C19 as stated: scoping an object that has been scoped already, under
\* whatever name, the empty string included, returns the object and changes
\* nothing of it.
C19_RescopeIsIdempotent == [][RescopeLeavesAlone(ScopeNames)]_vars

\* The same for the objects scoped under a name other than the empty
\* string: for them the code does what C19 says.
C19_RescopeIsIdempotentNamed == [][RescopeLeavesAlone(ScopeNames \ {""})]_vars

\* A scope that has an instance in its cache was scoped again under another
\* name and with another parent, and has kept its name.
C19_NamedRescoped ==
    \E i, j \in 1..Len(hist) :
        /\ i < j
        /\ Resolved(i) /\ hist[i].res # <<>>
        /\ hist[j].op \in {"scope", "scopeNoServices", "makeSubScope"}
        /\ hist[j].c = ScopeV(hist[i].scope)
        /\ hist[j].ex = NoEx
        /\ hist[j].name # scopes[hist[i].scope].scopeName
        /\ hist[j].scope # scopes[hist[i].scope].parentScope
        /\ scopes[hist[i].scope].scopeName # ""
        /\ Cached(hist[i].scope, hist[i].name, hist[i].at) = hist[i].res[1]

---------------------------------------------------------------------------
(* C20 *)

\* C20 as stated: scope(name, target), called without a services map on an
\* object that is not a scope, returns the object, now a scope of that name
\* that lists itself under its name and nothing under any other name, and no
\* service class is initialized.
C20_ScopeWithoutServices ==
    [][ LET called == JustCalled(hist')
        IN \A target \in ScopeIds :
            ( /\ Len(hist') = Len(hist) + 1
              /\ called.op = "scopeNoServices"
              /\ called.c = ScopeV(target)
              /\ ~scopes[target].named )
            => /\ called.ex = NoEx
               /\ called.res = <<ScopeV(target)>>
               /\ scopes'[target].named
               /\ scopes'[target].scopeName = called.name
               /\ \A name \in Names :
                    Listed(target, name)' =
                        IF name = called.name THEN <<ScopeV(target)>> ELSE <<>>
               /\ ~scopes'[target].initialized
               /\ initLog' = initLog ]_vars

---------------------------------------------------------------------------
(* C21 *)

\* the constructor calls the step makes
Built == (Len(heap) + 1)..Len(heap')

\* object n, built by the step, was handed to the constructor of another
\* object the step builds, or set as a property of one
Handed(n) ==
    \E m \in Built :
        \/ \E k \in 1..Len(heap'[m].args) :
                heap'[m].args[k].k = "inst" /\ heap'[m].args[k].n = n
        \/ \E q \in PropNames :
                heap'[m].props[q].k = "inst" /\ heap'[m].props[q].n = n

\* the options construct was called with for object n: those of the call of
\* the client for an object the call resolves at a position of its list,
\* and none for an object built for a dependency
OptionsOf(n, called) ==
    IF Handed(n) \/ called.op \notin {"require", "getServices"}
    THEN {Undef}
    ELSE IF called.ex = NoEx THEN {called.options}
    ELSE {Undef, called.options}

\* v is what scope.require(dependency) gave, on scope sc, to the constructor
\* of object n: null when sc lists nothing under the name; for a transient
\* class an object built earlier in the same step; and otherwise what sc
\* holds in the slot of the service class listed last
RequiredFor(v, sc, dependency, n) ==
    LET L == Listed(sc, dependency)
        c == L[Len(L)]
    IN IF L = <<>> THEN v = Null
       ELSE IF IsTransient(c)
       THEN IF Constructible(c)
            THEN v.k = "inst" /\ v.d = c.d /\ v.n \in Built /\ v.n < n
            ELSE v = c
       ELSE v = SlotGet(scopes'[sc].instances[dependency].slots, Len(L))

---------------------------------------------------------------------------
(* C22 *)

\* v is what scope.require(dependency) gave, on scope sc, for a property of
\* an object once the first `after` constructor calls were made: null when
\* sc lists nothing under the name; for a transient class an object built
\* later in the same step; and otherwise what sc holds in the slot of the
\* service class listed last
InjectedFor(v, sc, dependency, after) ==
    LET L == Listed(sc, dependency)
        c == L[Len(L)]
    IN IF L = <<>> THEN v = Null
       ELSE IF IsTransient(c)
       THEN IF Constructible(c)
            THEN v.k = "inst" /\ v.d = c.d /\ v.n \in Built /\ v.n > after
            ELSE v = c
       ELSE v = SlotGet(scopes'[sc].instances[dependency].slots, Len(L))

\* position p of the call resolves a plain object or a static function that
\* the call passes to construct: a transient one, or one whose slot in the
\* cache of the scope was empty
StaticConstructed(called, p) ==
    /\ StaticDescriptor(called.cls[p])
    /\ Affinity(called.cls[p]) = ""
    /\ \/ IsTransient(called.cls[p])
       \/ ~Truthy(Cached(called.scope, called.name, called.at + p - 1))

\* C22: when a resolution returns, every object it has built, for a
\* position of its list or for a dependency, carries under each property of
\* the injectProperties of its class what scope.require returned for the
\* service name of the property on the scope the object was built for; and
\* so does, whatever it carried before, every plain object or static
\* function that the resolution has passed to construct and returned.  A
\* value is handed to the caller only by such a step, so that the
\* properties are set before the caller first sees the object.
C22_PropertiesInjected ==
    [][ LET called == JustCalled(hist')
        IN ( /\ Len(hist') = Len(hist) + 1
             /\ called.op \in {"require", "getServices"}
             /\ called.ex = NoEx )
           => /\ \A n \in Built : \A sc \in ScopeIds :
                    heap'[n].scope = sc =>
                        LET ips == InjectProperties(DescV(heap'[n].d))
                        IN \A e \in 1..Len(ips) :
                            InjectedFor(heap'[n].props[ips[e][1]], sc, ips[e][2], n)
              /\ \A p \in 1..Len(called.cls) : \A sc \in ScopeIds :
                    StaticConstructed(called, p) /\ called.scope = sc =>
                        LET ips == InjectProperties(called.cls[p])
                        IN /\ called.res[p] = called.cls[p]
                           /\ \A e \in 1..Len(ips) :
                                InjectedFor(sprops'[called.cls[p].d][ips[e][1]],
                                            sc, ips[e][2], Len(heap)) ]_vars

\* A getServices on the root has returned the plain object and an instance
\* of the class, both carrying the root's singleton of 'b'; a getServices
\* on a sub-scope has then returned the plain object again, which now
\* carries the singleton of the sub-scope in place of the root's, and an
\* instance of the class that carries it too.
C22_Witness ==
    \E i, j \in 1..Len(hist) :
        /\ i < j
        /\ hist[i].op = "getServices" /\ Resolved(i) /\ hist[i].scope = 1
        /\ hist[j].op = "getServices" /\ Resolved(j) /\ hist[j].scope # 1
        /\ hist[i].cls = <<DescV("P"), DescV("Q")>> /\ hist[j].cls = hist[i].cls
        /\ hist[i].res[1] = DescV("P") /\ hist[j].res[1] = DescV("P")
        /\ hist[i].res[2].k = "inst" /\ hist[j].res[2].k = "inst"
        /\ LET mine == heap[hist[i].res[2].n].props["dep"]
               theirs == heap[hist[j].res[2].n].props["dep"]
           IN /\ mine.k = "inst" /\ theirs.k = "inst" /\ mine # theirs
              /\ heap[mine.n].scope = 1
              /\ heap[theirs.n].scope = hist[j].scope
              /\ sprops["P"]["dep"] = theirs

---------------------------------------------------------------------------
(* C23 *)

\* the number of places at which scope s lists the service class c, over
\* all the names of its services map
Listings(s, c) ==
    Cardinality(UNION {{<<name, index>> :
                           index \in {x \in 1..Len(Listed(s, name)) :
                                          Listed(s, name)[x] = c}} :
                       name \in Names})

\* initialize on s is to run the init hook of c: c has one, and the scope
\* of c is falsy (absent, or the empty string) or the name of s
ToInitialize(s, c) ==
    /\ HasInit(c)
    /\ Affinity(c) = "" \/ Affinity(c) = scopes[s].scopeName

\* the init hooks the step has run: the calls init(s) of the class d
InitRuns(d, s) == initLog'[<<d, s>>] - initLog[<<d, s>>]

\* the step has run, with s as the argument, the init hook of every service
\* class that s lists and is to initialize, once for each place at which it
\* is listed, and no other init hook with any argument
HasInitialized(s) ==
    \A d \in Descs, t \in ScopeIds :
        InitRuns(d, t) =
            IF t = s /\ ToInitialize(s, DescV(d))' THEN Listings(s, DescV(d))' ELSE 0

\* C23: a call of initialize on a scope runs the init hook, with the scope
\* as the argument, of the service classes the scope lists whose scope is
\* absent (falsy) or the name of the scope, and no other; a call that makes
\* an object a scope does the same when it is given a services map and runs
\* no init hook when it is given none; and no step runs, with a scope as the
\* argument, the init hook of a class of the scopes of another name.
C23_InitializeSelects ==
    [][ LET called == JustCalled(hist')
        IN /\ Len(hist') = Len(hist) + 1
           /\ \A s \in ScopeIds :
                called.op = "initialize" /\ called.scope = s => HasInitialized(s)
           /\ \A target \in ScopeIds :
                called.op \in {"scope", "makeSubScope"} /\ called.c = ScopeV(target)
                /\ ~scopes[target].named
                => HasInitialized(target) /\ scopes'[target].initialized
           /\ called.op = "scopeNoServices" => initLog' = initLog
           /\ \A d \in Descs, t \in ScopeIds :
                InitRuns(d, t) > 0 =>
                    Affinity(DescV(d)) \in {"", scopes'[t].scopeName} ]_vars

\* A scope 'i' made under the root with { a: [I, S] } has been initialized
\* at its creation: the hooks of I and S have run once with it and with no
\* other scope; a sub-scope 'i' of the root has run the hook of S and not
\* that of O; and initialize has been called on the root.
C23_Witness ==
    \E s, t \in ScopeIds \ {1} :
        /\ s # t
        /\ Listed(s, "a") = <<DescV("I"), DescV("S")>>
        /\ initLog[<<"I", s>>] = 1 /\ initLog[<<"S", s>>] = 1
        /\ Listed(t, "a") = <<DescV("S"), DescV("O")>>
        /\ initLog[<<"S", t>>] = 1 /\ initLog[<<"O", t>>] = 0
        /\ initLog[<<"I", 1>>] = 0 /\ initLog[<<"I", t>>] = 0
        /\ \E j \in 1..Len(hist) : hist[j].op = "initialize" /\ hist[j].scope = 1

---------------------------------------------------------------------------
(* C24 *)

\* The step is a register that returns, of a service class among classes,
\* and what C24 says of it: on a scope that is initialized it runs the init
\* hook of the class, once and with the scope as the argument, when
\* initialize on the scope is to run it, and it runs no other init hook; on
\* a scope that is not initialized it runs none.
RegisterInitializes(classes) ==
    LET called == JustCalled(hist')
    IN \A s \in ScopeIds, c \in classes :
        ( /\ Len(hist') = Len(hist) + 1
          /\ called.op = "register" /\ called.ex = NoEx
          /\ called.scope = s /\ called.c = c )
        => \A d \in Descs, t \in ScopeIds :
            InitRuns(d, t) =
                IF /\ d = c.d /\ t = s
                   /\ scopes[s].initialized
                   /\ ToInitialize(s, c)
                THEN 1 ELSE 0

\* C24 as stated: a register on an initialized scope initializes the class
\* exactly when initialize on that scope selects it, whatever the scope of
\* the class, the empty string included; and a register on a scope that is
\* not initialized runs no init hook.
C24_RegisterInitializesAsInitialize ==
    [][RegisterInitializes({DescV(d) : d \in Descs})]_vars

\* The same for the classes whose scope is not declared as a falsy value:
\* for them the code does what C24 says.
C24_RegisterInitializesNamed ==
    [][RegisterInitializes({DescV(d) : d \in
            {x \in Descs : HasOwnScope(DescV(x)) => Affinity(DescV(x)) # ""}})]_vars

\* A class of the scopes named 'i' has been registered on a sub-scope 'i',
\* which has run its init hook, and on the root, which has not.
C24_NamedRegistered ==
    \E j, k \in 1..Len(hist) :
        /\ hist[j].op = "register" /\ hist[k].op = "register"
        /\ hist[j].c = DescV("I") /\ hist[k].c = DescV("I")
        /\ hist[j].scope = 1 /\ hist[k].scope # 1
        /\ scopes[hist[k].scope].scopeName = "i"
        /\ initLog[<<"I", 1>>] = 0
        /\ initLog[<<"I", hist[k].scope>>] = 1

---------------------------------------------------------------------------
(* C25 *)

\* c is a class with no lifetime flag: a constructor function that is
\* flagged neither transient nor isStatic
NoLifetimeFlag(c) == Constructible(c) /\ ~IsTransient(c)

\* C25 as stated: two calls of require for one name on one scope, resolving
\* the same class with no lifetime flag, return distinct instances.
C25_UnflaggedIsTransient ==
    \A i, j \in 1..Len(hist) :
        /\ i < j
        /\ hist[i].op = "require" /\ Resolved(i) /\ Len(hist[i].cls) = 1
        /\ hist[j].op = "require" /\ Resolved(j) /\ hist[j].cls = hist[i].cls
        /\ hist[i].scope = hist[j].scope /\ hist[i].name = hist[j].name
        /\ NoLifetimeFlag(hist[i].cls[1])
        => hist[i].res # hist[j].res

---------------------------------------------------------------------------
(* C26 *)

\* What a step does to the chains (run false) or to the executions of the
\* lifecycle functions (run true), old before it and new after it: it
\* moves none of them by more than one step; the first step of one is
\* reached within the call of the client that starts it; a further step is
\* reached only by the callback that process.nextTick held for it, which is
\* taken from the head of the queue, outside every call of the client and
\* every callback of a step; and whenever a step is over and another is to
\* follow, one callback is in the queue for it.
YieldsBetween(old, new, run) ==
    \A c \in 1..Len(new) :
        LET before == IF c <= Len(old) THEN old[c].n ELSE 0
            after == new[c].n
            me == [run |-> run, i |-> c]
        IN /\ after \in {before, before + 1}
           /\ after = before + 1 /\ before = 0 =>
                /\ c = Len(old) + 1
                /\ Len(hist') = Len(hist) + 1
           /\ after = before + 1 /\ before >= 1 =>
                /\ old[c].pc = "tick"
                /\ ticks # <<>> /\ Head(ticks) = me
                /\ Len(old[c].answers) = Len(old[c].invoked)
                /\ hist' = hist
           /\ new[c].pc = "tick" <=>
                Cardinality({k \in 1..Len(ticks') : ticks'[k] = me}) = 1
           /\ new[c].pc # "tick" =>
                \A k \in 1..Len(ticks') : ticks'[k] # me

\* C26: in a callService chain and in an execution of a lifecycle function,
\* the first step runs inside the call that starts it, and every further
\* step runs from a callback of process.nextTick of its own: never inside
\* the callback of the step before it, whether that step called back before
\* it returned or later, and never right after a step that was passed over
\* because its instance lacks the method.
C26_YieldBetweenSteps ==
    [][ /\ YieldsBetween(chains, chains', FALSE)
        /\ YieldsBetween(runs, runs', TRUE) ]_vars

\* A chain has reached its third step past an instance without the method,
\* the two others have been invoked and have called back; and an execution
\* of a lifecycle function has run its two steps.
C26_Witness ==
    /\ \E c \in 1..Len(chains) :
        /\ chains[c].n = 3
        /\ Skipped(chains[c]) = {2}
        /\ Len(chains[c].invoked) = 2
        /\ Len(chains[c].answers) = 2
    /\ \E r \in 1..Len(runs) :
        /\ runs[r].n = 2
        /\ Len(runs[r].answers) = 2
        /\ runs[r].dones = << <<>> >>

---------------------------------------------------------------------------
(* C27 *)

\* C27: whatever the client has had resolved, by require, getServices,
\* callService or lifecycle, no slot of the instance cache of any scope
\* holds an object of a class flagged transient (an instance of it, or the
\* class itself when it is static as well), and the slot at the place of a
\* transient class in a list holds nothing.
C27_TransientNeverCached ==
    \A s \in ScopeIds, name \in Names :
        /\ \A index \in 1..Len(scopes[s].instances[name].slots) :
              LET v == Cached(s, name, index)
              IN v.k \in {"inst", "desc"} => ~IsTransient(DescV(v.d))
        /\ \A index \in 1..Len(Listed(s, name)) :
              IsTransient(Listed(s, name)[index]) => Cached(s, name, index) = Undef

\* The root has resolved the list S, T for a callService chain and for a
\* lifecycle function and the transient class for a require, each time with
\* a new instance of T, and holds the singleton in its cache; the chain has
\* invoked its instance of T.
C27_Witness ==
    /\ \E i, j, k \in 1..Len(hist) :
          /\ hist[i].op = "callService" /\ hist[i].ex = NoEx
          /\ hist[j].op = "lifecycle" /\ hist[j].ex = NoEx
          /\ hist[k].op = "require" /\ hist[k].ex = NoEx
          /\ hist[k].res[1].k = "inst" /\ hist[k].res[1].d = "T"
    /\ Cardinality({n \in 1..Len(heap) : heap[n].d = "T"}) = 3
    /\ Cached(1, "a", 1).k = "inst"
    /\ \E c \in 1..Len(chains) :
          \E p \in 1..Len(chains[c].invoked) : chains[c].invoked[p].service.d = "T"

---------------------------------------------------------------------------
(* C28 *)

\* The places of the service classes a call resolved that are singletons of
\* the proper ancestor t of the calling scope s and that s had not in its
\* own cache before the call.
FetchedFrom(called, s, t) ==
    {p \in 1..Len(called.cls) :
        /\ AncestorOwned(called.cls[p], s)
        /\ Owner(called.cls[p], s) = t
        /\ ~Truthy(Cached(s, called.name, called.at + p - 1))}

\* What a require or a getServices that returns does to the caches, called
\* being its entry in the history, s its scope and name the service name.
PropagatesDown(called, s, name) ==
    /\ \A t \in ScopeIds \ {s} :
          \* the owner holds the instance at the first listing of the class
          /\ \A p \in FetchedFrom(called, s, t) :
                /\ SlotGet(scopes'[t].instances[name].slots,
                           IndexOf(Listed(t, name), called.cls[p])) = called.res[p]
                /\ SlotGet(scopes'[s].instances[name].slots, called.at + p - 1)
                       = called.res[p]
          \* and nothing else of any other scope has changed
          /\ \A n \in Names \ {name} :
                scopes'[t].instances[n] = scopes[t].instances[n]
          /\ \A x \in 1..Len(scopes'[t].instances[name].slots) :
                SlotGet(scopes'[t].instances[name].slots, x) # Cached(t, name, x) =>
                    \E p \in FetchedFrom(called, s, t) :
                        x = IndexOf(Listed(t, name), called.cls[p])
          /\ FetchedFrom(called, s, t) = {} => scopes'[t] = scopes[t]
    \* what s has in its own slot is what it returns
    /\ \A p \in 1..Len(called.cls) :
          /\ ~IsTransient(called.cls[p])
          /\ Truthy(Cached(s, name, called.at + p - 1))
          => called.res[p] = Cached(s, name, called.at + p - 1)
    /\ (\A p \in 1..Len(called.cls) :
           ~IsTransient(called.cls[p]) /\ Truthy(Cached(s, name, called.at + p - 1)))
       => heap' = heap /\ scopes' = scopes

\* C28: when a scope resolves a singleton of one of its ancestors for the
\* first time, the instance is afterwards in the ancestor's cache, at the
\* first listing of the class under the name there, and in the slot of the
\* calling scope; no other slot of the ancestor and nothing of any other
\* scope changes.  From then on the calling scope returns what its own slot
\* holds, and changes nothing.
C28_CachedAtOwnerAndRequester ==
    [][ LET called == JustCalled(hist')
        IN /\ Len(hist') = Len(hist) + 1
           /\ called.op \in {"require", "getServices"}
           /\ called.ex = NoEx
           => \A s \in ScopeIds, name \in Names :
                 called.scope = s /\ called.name = name =>
                     PropagatesDown(called, s, name) ]_vars

\* A sub-scope of a sub-scope of the root has required the singleton of the
\* root twice: the instance is in the cache of the root and in its own, the
\* scope between them has no cache, and the second require returned the
\* same instance.
C28_Witness ==
    \E i, j \in 1..Len(hist) :
        /\ i < j
        /\ hist[i].op = "require" /\ hist[i].ex = NoEx /\ hist[i].scope = 3
        /\ hist[j].op = "require" /\ hist[j].ex = NoEx /\ hist[j].scope = 3
        /\ hist[i].name = hist[j].name
        /\ hist[i].res = hist[j].res
        /\ scopes[3].parentScope = 2 /\ scopes[2].parentScope = 1
        /\ AncestorOwned(hist[i].cls[1], 3)
        /\ Owner(hist[i].cls[1], 3) = 1
        /\ Cached(1, hist[i].name, hist[i].at) = hist[i].res[1]
        /\ Cached(3, hist[i].name, hist[i].at) = hist[i].res[1]
        /\ \A n \in Names : scopes[2].instances[n] = NoCache

---------------------------------------------------------------------------
(* C29 *)

\* Object n, which the step has built for the service class c, was built
\* for scope w: w is the scope the constructor is handed when the class has
\* no inject list, and the scope whose require gave every injected argument
\* and every injected property; where w lists nothing under the name of a
\* dependency, the dependency is null.
BuiltAgainst(n, c, w) ==
    LET args == heap'[n].args
        deps == InjectList(c)
        ips == InjectProperties(c)
    IN /\ IF HasInject(c)
          THEN /\ Len(args) >= Len(deps)
               /\ \A k \in 1..Len(deps) :
                    /\ RequiredFor(args[k], w, deps[k], n)
                    /\ Listed(w, deps[k]) = <<>> => args[k] = Null
          ELSE /\ Len(args) = 2
               /\ args[1] = ScopeV(w)
       /\ \A e \in 1..Len(ips) :
            /\ InjectedFor(heap'[n].props[ips[e][1]], w, ips[e][2], n)
            /\ Listed(w, ips[e][2]) = <<>> => heap'[n].props[ips[e][1]] = Null

\* C29: what a require or a getServices on a scope returns for a singleton
\* of one of its proper ancestors is an instance constructed for that
\* ancestor; and when the call has constructed it, the constructor was
\* handed the ancestor as the scope, and the dependencies injected into the
\* constructor and the properties are what the ancestor's require gives:
\* null for a name that only the calling scope lists.
C29_BuiltAgainstOwner ==
    [][ LET called == JustCalled(hist')
        IN ( /\ Len(hist') = Len(hist) + 1
             /\ called.op \in {"require", "getServices"}
             /\ called.ex = NoEx )
           => \A s \in ScopeIds, w \in ScopeIds : \A p \in 1..Len(called.cls) :
                 ( /\ called.scope = s
                   /\ AncestorOwned(called.cls[p], s)
                   /\ Owner(called.cls[p], s) = w )
                 => LET v == called.res[p]
                    IN /\ v.k = "inst"
                       /\ v.d = called.cls[p].d
                       /\ heap'[v.n].scope = w
                       /\ v.n \in Built => BuiltAgainst(v.n, called.cls[p], w) ]_vars

\* A sub-scope of the root lists a singleton under 'b', which the root does
\* not, and has had the two singletons of the root resolved: both were
\* built for the root, the first with the root as its scope argument, the
\* second with null as its constructor argument and as its property.
C29_Witness ==
    \E i \in 1..Len(hist) :
        /\ hist[i].op = "getServices" /\ hist[i].ex = NoEx
        /\ hist[i].scope # 1
        /\ hist[i].cls = <<DescV("O"), DescV("R")>>
        /\ Listed(hist[i].scope, "b") = <<DescV("S")>>
        /\ Listed(1, "b") = <<>>
        /\ hist[i].h0 + 2 = hist[i].h1
        /\ LET first == heap[hist[i].res[1].n]
               second == heap[hist[i].res[2].n]
           IN /\ first.scope = 1 /\ first.args[1] = ScopeV(1)
              /\ second.scope = 1 /\ second.args = <<Null>>
              /\ second.props["dep"] = Null

---------------------------------------------------------------------------
(* C30 *)

\* The places of the list a call on scope s resolves at which resolution
\* cannot succeed: the class is a singleton that s has not in its cache,
\* and the scope of its name is not found from s upwards, or is found above
\* s and does not list the class under the name.
Failing(called, s) ==
    {p \in 1..Len(called.cls) :
        LET c == called.cls[p]
        IN /\ c.k = "desc"
           /\ ~IsTransient(c)
           /\ Affinity(c) # ""
           /\ ~Truthy(Cached(s, called.name, called.at + p - 1))
           /\ \/ Owner(c, s) = NoScope
              \/ /\ Owner(c, s) # s
                 /\ IndexOf(Listed(Owner(c, s), called.name), c) = 0}

\* Those at which the scope of the class's name is found above s and does
\* not list the class; and among them those at which it lists other classes
\* under the name.
Unlisted(called, s) ==
    {p \in Failing(called, s) : Owner(called.cls[p], s) # NoScope}
UnlistedAmongOthers(called, s) ==
    {p \in Unlisted(called, s) :
        scopes[Owner(called.cls[p], s)].services[called.name] # NoArray}

\* A require or a getServices whose first failing place is one of places
\* throws the error that names the service and the scope of the class, and
\* constructs no object of the class.
RaisesAffinityError(called, s, places) ==
    \A p \in places :
        (\A q \in Failing(called, s) : p <= q) =>
            /\ called.ex = AffinityError(called.name, Affinity(called.cls[p]))
            /\ called.res = <<>>
            /\ \A n \in (Len(heap) + 1)..Len(heap') : heap'[n].d # called.cls[p].d
            /\ called.op = "require" => heap' = heap

\* C30: a require or a getServices that comes upon a singleton whose scope
\* is found above the calling scope, and which that scope does not list
\* under the service name, throws "Couldn't find an instance of <service>
\* on scope <scope>" and constructs nothing for it, whether that scope lists
\* other classes under the name or has no list for it.
C30_UnlistedAtOwnerRaises ==
    [][ LET called == JustCalled(hist')
        IN /\ Len(hist') = Len(hist) + 1
           /\ called.op \in {"require", "getServices"}
           => \A s \in ScopeIds :
                 called.scope = s =>
                     RaisesAffinityError(called, s, Unlisted(called, s)) ]_vars

\* The same, where the scope of the class's name lists other classes under
\* the service name.
C30_UnlistedAmongOthersRaises ==
    [][ LET called == JustCalled(hist')
        IN /\ Len(hist') = Len(hist) + 1
           /\ called.op \in {"require", "getServices"}
           => \A s \in ScopeIds :
                 called.scope = s =>
                     RaisesAffinityError(called, s, UnlistedAmongOthers(called, s)) ]_vars

\* A scope 'i' made under the root with { a: [O] } has required 'a', the
\* root listing S alone under 'a': the require has thrown the error for
\* 'a' and 'o', and no object has been built.
C30_AmongOthersRequired ==
    \E i \in 1..Len(hist) :
        /\ hist[i].op = "require" /\ hist[i].name = "a"
        /\ hist[i].scope # 1
        /\ scopes[hist[i].scope].parentScope = 1
        /\ hist[i].cls = <<DescV("O")>>
        /\ Listed(1, "a") = <<DescV("S")>>
        /\ hist[i].ex = AffinityError("a", "o")
        /\ heap = <<>>

---------------------------------------------------------------------------
(* C31 *)

\* The step is a require or a getServices that has thrown the error of
\* getSingleton.
Failed(called) ==
    /\ Len(hist') = Len(hist) + 1
    /\ called.op \in {"require", "getServices"}
    /\ called.ex.type = "Error"

\* the service class the error is about: the first of the list of the call
\* that cannot be resolved
FailedClass(called) ==
    called.cls[CHOOSE p \in Failing(called, called.scope) :
                  \A q \in Failing(called, called.scope) : p <= q]

\* the state of the scopes and the objects after the step
StoreAfter == [scopes |-> scopes', heap |-> heap', sprops |-> sprops']

\* the same call made again right after the step throws the same error
FailsAgain(called, s, name) ==
    IF called.op = "require"
    THEN scope_require(StoreAfter, s, name, called.options, MaxDepth).ex = called.ex
    ELSE scope_getServices(StoreAfter, s, name, called.options).ex = called.ex

\* the slots (scope, service name, index) that hold an object of class D
\* after the step
HoldingAfter(D) ==
    UNION {UNION {{<<t, n, x>> :
                      x \in {y \in 1..Len(scopes'[t].instances[n].slots) :
                                LET v == scopes'[t].instances[n].slots[y]
                                IN v.k \in {"inst", "desc"} /\ v.d = D.d}} :
                  n \in Names} :
           t \in ScopeIds}

\* C31 as stated: after a resolution has failed with the error of
\* getSingleton for a service class, no cache slot of any scope holds an
\* object of that class, the lists are what they were, and the same call
\* fails again with the same error.
C31_NoInstanceAfterFailure ==
    [][ LET called == JustCalled(hist')
        IN Failed(called) =>
              /\ called.ex = AffinityError(called.name, Affinity(FailedClass(called)))
              /\ HoldingAfter(FailedClass(called)) = {}
              /\ arr' = arr
              /\ \A t \in ScopeIds : scopes'[t].services = scopes[t].services
              /\ FailsAgain(called, called.scope, called.name) ]_vars

\* C31: a resolution that fails with the error of getSingleton for a
\* service class puts no object of that class into any cache slot: every
\* slot that holds one afterwards held it before (a scope that owns the
\* class keeps its instance); no object of the class is built; the lists
\* are what they were; and the same call fails again with the same error.
C31_FailureStoresNothing ==
    [][ LET called == JustCalled(hist')
        IN Failed(called) =>
              /\ called.ex = AffinityError(called.name, Affinity(FailedClass(called)))
              /\ \A x \in HoldingAfter(FailedClass(called)) :
                    Cached(x[1], x[2], x[3]) =
                        SlotGet(scopes'[x[1]].instances[x[2]].slots, x[3])
              /\ \A n \in (Len(heap) + 1)..Len(heap') :
                    heap'[n].d # FailedClass(called).d
              /\ arr' = arr
              /\ \A t \in ScopeIds : scopes'[t].services = scopes[t].services
              /\ FailsAgain(called, called.scope, called.name) ]_vars

\* A scope 'i' made apart from the root lists the singleton of 'o' and has
\* required it twice: both requires have thrown the same error, its cache
\* for the name is allocated and empty, and the root holds its own instance
\* of the class.
C31_Witness ==
    \E i, j \in 1..Len(hist) :
        /\ i < j
        /\ hist[i].op = "require" /\ hist[j].op = "require"
        /\ hist[i].scope = hist[j].scope /\ hist[i].name = hist[j].name
        /\ hist[i].ex = AffinityError(hist[i].name, "o")
        /\ hist[j].ex = hist[i].ex
        /\ scopes[hist[i].scope].instances[hist[i].name].alloc
        /\ \A x \in 1..Len(scopes[hist[i].scope].instances[hist[i].name].slots) :
              Cached(hist[i].scope, hist[i].name, x) = Undef

---------------------------------------------------------------------------
(* C32 *)

\* C32: a callService whose list holds a singleton that cannot be resolved
\* throws the error of getSingleton to its caller, for the first such class,
\* before it returns; it starts no chain, so that no method is invoked,
\* nothing is handed to process.nextTick and done is never called: every
\* chain there is belongs to a callService that returned.
C32_ResolutionErrorIsThrown ==
    [][ LET called == JustCalled(hist')
        IN /\ \A c \in 1..Len(chains') : hist'[chains'[c].op].ex = NoEx
           /\ ( /\ Len(hist') = Len(hist) + 1
                /\ called.op = "callService"
                /\ Failing(called, called.scope) # {} )
              => /\ called.ex = AffinityError(called.name,
                                              Affinity(FailedClass(called)))
                 /\ called.res = <<>>
                 /\ chains' = chains
                 /\ ticks' = ticks
                 /\ runs' = runs ]_vars

\* A callService on the root has thrown the error for the singleton of 'i',
\* and no chain was started for it; a callService on a sub-scope 'i' has
\* returned, and its chain has called done.
C32_Witness ==
    \E i, j \in 1..Len(hist) :
        /\ hist[i].op = "callService" /\ hist[i].scope = 1
        /\ hist[i].ex = AffinityError("a", "i")
        /\ \A c \in 1..Len(chains) : chains[c].op # i
        /\ hist[j].op = "callService" /\ hist[j].ex = NoEx
        /\ \E c \in 1..Len(chains) :
              /\ chains[c].op = j
              /\ chains[c].dones = << <<>> >>
              /\ Len(chains[c].services) = 2

---------------------------------------------------------------------------
(* C33 *)

\* the chains, or executions, of seq that belong to the same call as seq[c]:
\* seq[c] alone when every step of the call has called back at most once,
\* and one more for each callback that was called again
Continuations(seq, c) == {x \in 1..Len(seq) : seq[x].op = seq[c].op}

\* the calls of done of that call, each with the continuation that made it
DoneCalls(seq, c) ==
    UNION {{<<x, k>> : k \in 1..Len(seq[x].dones)} : x \in Continuations(seq, c)}

\* What a step does to the chains, or to the executions, old before it and
\* new after it.  Each continuation calls done at most once, and exactly
\* once when it is over; once it has called done it invokes nothing and
\* schedules nothing.  A call whose steps have each called back at most
\* once has one continuation, hence at most one call of done, after which
\* nothing of it moves.  A callback that is called again makes one more
\* continuation, which runs from the step after it on, so that done is
\* called at most once per continuation of the call.
OncePerCallback(old, new, run) ==
    \A c \in 1..Len(new) :
        /\ Len(new[c].dones) <= 1
        /\ new[c].pc = "done" <=> Len(new[c].dones) = 1
        /\ new[c].dones # <<>> =>
              /\ \A k \in 1..Len(ticks') : ticks'[k] # [run |-> run, i |-> c]
              /\ Len(new[c].invoked) = Len(new[c].answers)
        /\ c <= Len(old) /\ old[c].dones # <<>> => new[c] = old[c]
        /\ Continuations(new, c) = {c} => Cardinality(DoneCalls(new, c)) <= 1
        /\ Cardinality(DoneCalls(new, c)) <= Cardinality(Continuations(new, c))
        /\ c > Len(old) /\ Continuations(new, c) # {c} =>
              \* the continuation a repeated callback starts
              /\ hist' = hist
              /\ \E i \in Continuations(old, CHOOSE x \in Continuations(new, c) : x < c) :
                    \E p \in 1..Len(old[i].answers) :
                        /\ new[c].n = old[i].invoked[p].step
                        /\ new[c].invoked = SubSeq(old[i].invoked, 1, p)
                        /\ Len(new[c].answers) = p
                        /\ new[c].pc \in {"tick", "done"}

\* C33: while every step calls its callback at most once, a call of
\* callService and an execution of a lifecycle function call done at most
\* once, exactly once when they are over, and invoke no step afterwards.
\* Nothing in the code stops a callback that is called again: it runs the
\* rest of the chain once more, and done is called once for each time.
C33_DoneOncePerCallback ==
    [][ /\ OncePerCallback(chains, chains', FALSE)
        /\ OncePerCallback(runs, runs', TRUE) ]_vars

\* The first method of a chain has called its callback twice: the second
\* method has been invoked twice and done has been called twice, for the
\* one call of callService.
C33_Witness ==
    \E c, d \in 1..Len(chains) :
        /\ c < d
        /\ chains[c].op = chains[d].op
        /\ chains[c].dones = << <<>> >> /\ chains[d].dones = << <<>> >>
        /\ Len(chains[c].invoked) = 2 /\ Len(chains[d].invoked) = 2
        /\ chains[c].invoked[2].step = 2 /\ chains[d].invoked[2].step = 2
        /\ Cardinality(DoneCalls(chains, c)) = 2

---------------------------------------------------------------------------
(* C34 *)

\* seq[c], a chain or an execution, has called done as it must: with the
\* first error a callback was given, or with no argument when no callback
\* was given one
Completed(seq, c) ==
    /\ c <= Len(seq)
    /\ seq[c].dones =
          << IF ErrorsOf(seq[c]) = {} THEN <<>>
             ELSE <<seq[c].answers[CHOOSE k \in ErrorsOf(seq[c]) :
                                       \A j \in ErrorsOf(seq[c]) : k <= j]>> >>

\* While the callback of the step a chain or an execution has invoked has
\* not been called, done has not been called, nothing is in the queue of
\* process.nextTick for it, and the one thing that moves it is that
\* callback: there is no timeout.
StalledUntilCallback(old, new, run) ==
    \A c \in 1..Len(old) :
        old[c].pc = "inflight" =>
            /\ old[c].dones = <<>>
            /\ \A k \in 1..Len(ticks) : ticks[k] # [run |-> run, i |-> c]
            /\ \/ new[c] = old[c]
               \/ Len(new[c].answers) = Len(old[c].answers) + 1

\* C34: when process.nextTick runs what it was handed and every invoked
\* step calls its callback in the end, every callService that returned and
\* every execution of a lifecycle function calls done in the end: with the
\* first error, or with none after the last step.  And a chain does not
\* move while it waits for a callback, so that a step that never calls back
\* leaves done uncalled for ever.
C34_RunsToCompletion ==
    /\ \A c \in 1..MaxChains :
          /\ (c <= Len(chains)) ~> Completed(chains, c)
          /\ (c <= Len(runs)) ~> Completed(runs, c)
    /\ [][ /\ StalledUntilCallback(chains, chains', FALSE)
           /\ StalledUntilCallback(runs, runs', TRUE) ]_vars

\* A chain whose first method called back later has called done with no
\* error after its last step, and an execution of a lifecycle function has
\* called done with the error of its first step.
C34_Witness ==
    /\ \E c \in 1..Len(chains) :
          /\ Completed(chains, c)
          /\ chains[c].dones = << <<>> >>
          /\ Len(chains[c].invoked) = 2
    /\ \E r \in 1..Len(runs) :
          /\ Completed(runs, r)
          /\ runs[r].dones # << <<>> >>
          /\ Len(runs[r].invoked) = 1

---------------------------------------------------------------------------
(* C35 *)

\* An execution of a lifecycle function keeps to its own steps: it has
\* invoked the first steps of the function it executes, in their order,
\* each with its own context; it has called done at most once, and when it
\* has called it with no error it has invoked every step.
OwnSteps(run) ==
    /\ run.methodArray = lifecycles[run.fn].methodArray
    /\ Len(run.invoked) <= Len(run.methodArray)
    /\ \A k \in 1..Len(run.invoked) :
          /\ run.invoked[k].step = k
          /\ run.invoked[k].method = run.methodArray[k]
          /\ run.invoked[k].options = run.options
    /\ Len(run.dones) <= 1
    /\ run.dones = << <<>> >> => Len(run.invoked) = Len(run.methodArray)

\* The same for a chain of callService: the services with the method, in
\* their order, each with the options of its call.
OwnServices(ch) ==
    /\ \A k \in 1..Len(ch.invoked) :
          /\ ch.invoked[k].step = NthStep(ch, ch.n, k)
          /\ ch.invoked[k].service = ch.services[ch.invoked[k].step]
          /\ ch.invoked[k].options = ch.options
    /\ Len(ch.dones) <= 1
    /\ ch.dones = << <<>> >> =>
          Len(ch.invoked) = Cardinality(StepsWithMethod(ch, Len(ch.services)))

\* C35: chains of callService and executions of lifecycle functions that
\* are under way together hold no position in common.  A transition moves
\* one of them and leaves every other as it was; and each invokes its own
\* steps in the declared order, with its own options, and calls its own
\* done once.
C35_ExecutionsIndependent ==
    [][ /\ \A r \in 1..Len(runs') : OwnSteps(runs'[r])
        /\ \A c \in 1..Len(chains') : OwnServices(chains'[c])
        /\ Cardinality({r \in 1..Len(runs) : runs'[r] # runs[r]}
                       \cup {-c : c \in {x \in 1..Len(chains) : chains'[x] # chains[x]}})
               <= 1
        /\ (\E r \in 1..Len(runs) : runs'[r] # runs[r]) => Len(runs') = Len(runs)
        /\ (\E c \in 1..Len(chains) : chains'[c] # chains[c]) =>
               Len(chains') = Len(chains) ]_vars

\* Two executions of the one lifecycle function, with different contexts,
\* wait for callbacks at the same time, the first at its second step and
\* the second at its first.
C35_Witness ==
    /\ Len(runs) = 2
    /\ runs[1].fn = runs[2].fn
    /\ runs[1].options # runs[2].options
    /\ runs[1].pc = "inflight" /\ runs[2].pc = "inflight"
    /\ runs[1].n = 2 /\ runs[2].n = 1
    /\ runs[1].invoked[2].options = runs[1].options
    /\ runs[2].invoked[1].options = runs[2].options

---------------------------------------------------------------------------
(* C36 *)

\* The arguments of scope.lifecycle, read from argument i on as the code
\* reads them, name a service under which scope s lists a class whose
\* instances have no method of the name that follows.
RECURSIVE Lacking(_, _, _)
Lacking(s, arguments, i) ==
    IF i > Len(arguments) THEN FALSE
    ELSE IF arguments[i].k = "fn" THEN Lacking(s, arguments, i + 1)
    ELSE \/ \E p \in 1..Len(Listed(s, arguments[i].d)) :
               LET c == Listed(s, arguments[i].d)[p]
                   methodName == Argument(arguments, i + 1)
               IN ~( /\ c.k = "desc"
                     /\ methodName.k = "str"
                     /\ methodName.d \in ServiceClasses[c.d].methods )
         \/ Lacking(s, arguments, i + 2)

\* C36: scope.lifecycle passes over no service.  A call that returns a
\* function was given no service name under which a class without the
\* method is listed; a call that was given one throws a TypeError, and no
\* function comes of it, so that nothing can ever be run.  callService on
\* the same list returns and passes over the instance without the method.
C36_LifecycleNeedsEveryMethod ==
    [][ LET called == JustCalled(hist')
        IN /\ ( Len(hist') = Len(hist) + 1 /\ called.op = "lifecycle" ) =>
                IF called.ex = NoEx
                THEN /\ Len(lifecycles') = Len(lifecycles) + 1
                     /\ ~Lacking(called.scope,
                                 lifecycles'[Len(lifecycles')].arguments, 1)
                ELSE /\ called.ex = TypeError
                     /\ lifecycles' = lifecycles
                     /\ runs' = runs /\ ticks' = ticks
                     /\ \E arguments \in pool.arguments :
                            Lacking(called.scope, arguments, 1)
           /\ \A f \in 1..Len(lifecycles') :
                /\ ~Lacking(lifecycles'[f].scope, lifecycles'[f].arguments, 1)
                /\ \A k \in 1..Len(lifecycles'[f].methodArray) :
                      LET step == lifecycles'[f].methodArray[k]
                      IN ~step.bare => Exposes(step.service, step.method) ]_vars

\* scope.lifecycle('a', 'm') has thrown a TypeError on the root, whose list
\* for 'a' has a class without the method in the middle, and no function
\* was built; callService('a', 'm') on the same root has returned, and its
\* chain has passed over that instance and called done.
C36_Witness ==
    \E i, j \in 1..Len(hist) :
        /\ hist[i].op = "lifecycle" /\ hist[i].ex = TypeError
        /\ lifecycles = <<>>
        /\ hist[j].op = "callService" /\ hist[j].ex = NoEx
        /\ hist[j].scope = hist[i].scope
        /\ \E c \in 1..Len(chains) :
              /\ chains[c].op = j
              /\ Skipped(chains[c]) = {2}
              /\ chains[c].dones = << <<>> >>

---------------------------------------------------------------------------
(* C37 *)

\* the options the call hands to construct: its own for require and
\* getServices, and none for callService, which calls getServices(service)
OptionsHanded(called) ==
    IF called.op \in {"require", "getServices"} THEN called.options ELSE Undef

\* C37: a constructor receives the options of the call that constructs the
\* object, and of no other.  A require or a getServices that finds a
\* singleton in its slot returns it as it was built, whatever options it
\* was called with; the objects a call constructs, singletons and transient
\* ones, are handed the options of that call; and callService constructs
\* every object without options, while its methods are handed the options.
C37_OptionsOnlyAtConstruction ==
    [][ LET called == JustCalled(hist')
        IN ( /\ Len(hist') = Len(hist) + 1
             /\ called.op \in {"require", "getServices", "callService"}
             /\ called.ex = NoEx )
           => /\ \A p \in 1..Len(called.cls) :
                    LET before == Cached(called.scope, called.name, called.at + p - 1)
                    IN ~IsTransient(called.cls[p]) /\ Truthy(before) =>
                          /\ called.res[p] = before
                          /\ called.res[p].n \notin Built
                          /\ heap'[before.n] = heap[before.n]
              /\ \A n \in Built :
                    heap'[n].args = <<ScopeV(called.scope), OptionsHanded(called)>>
              /\ \A n \in 1..Len(heap) : heap'[n].args = heap[n].args ]_vars

\* getServices with one options object has built the singleton and the
\* transient class; getServices with another has returned the same
\* singleton, built with the first options, and a new transient object
\* built with the second; and a callService with options has built its
\* transient object with none.
C37_Witness ==
    \E i, j, k \in 1..Len(hist) :
        /\ i < j
        /\ hist[i].op = "getServices" /\ hist[i].ex = NoEx
        /\ hist[j].op = "getServices" /\ hist[j].ex = NoEx
        /\ hist[i].scope = hist[j].scope
        /\ hist[i].cls = <<DescV("S"), DescV("T")>> /\ hist[j].cls = hist[i].cls
        /\ hist[i].options = OptV("x") /\ hist[j].options = OptV("y")
        /\ hist[i].res[1] = hist[j].res[1]
        /\ heap[hist[j].res[1].n].args[2] = OptV("x")
        /\ heap[hist[i].res[2].n].args[2] = OptV("x")
        /\ heap[hist[j].res[2].n].args[2] = OptV("y")
        /\ hist[k].op = "callService" /\ hist[k].ex = NoEx
        /\ hist[k].options = OptV("x")
        /\ hist[k].h0 < hist[k].h1
        /\ heap[hist[k].h1].args[2] = Undef

---------------------------------------------------------------------------
(* C38 *)

\* c is constructed, kept, and declares no affinity
SingletonOfAnyScope(c) ==
    Constructible(c) /\ ~IsTransient(c) /\ Affinity(c) = ""

\* p is a proper ancestor of s
Above(p, s) == p # s /\ OnChain(p, s)

\* C38: a non-transient constructible class with no affinity is a singleton
\* of each scope that resolves it.  What a scope holds of it, and what a
\* resolution on the scope returns for it, was constructed for that scope,
\* with that scope as the first argument; so a scope and a scope below it
\* never return the same instance of it.
C38_SingletonPerResolvingScope ==
    /\ \A s \in ScopeIds, name \in Names :
        \A index \in 1..Len(scopes[s].instances[name].slots) :
            LET v == Cached(s, name, index)
            IN v.k = "inst" /\ SingletonOfAnyScope(DescV(v.d)) =>
                /\ heap[v.n].scope = s
                /\ heap[v.n].args[1] = ScopeV(s)
    /\ \A i \in 1..Len(hist) :
        Resolved(i) =>
            \A p \in Positions(i) :
                SingletonOfAnyScope(hist[i].cls[p]) =>
                    /\ hist[i].res[p].k = "inst"
                    /\ hist[i].res[p].d = hist[i].cls[p].d
                    /\ heap[hist[i].res[p].n].scope = hist[i].scope
                    /\ heap[hist[i].res[p].n].args[1] = ScopeV(hist[i].scope)
    /\ \A i, j \in 1..Len(hist) :
        /\ hist[i].scope # hist[j].scope
        /\ Resolved(i) /\ Resolved(j)
        /\ Above(hist[i].scope, hist[j].scope)
        => \A p \in Positions(i) :
              SingletonOfAnyScope(hist[i].cls[p]) =>
                  \A q \in Positions(j) : hist[i].res[p] # hist[j].res[q]

\* The root has resolved the list, and then a scope made under it has:
\* the sub-scope got an instance of its own of the class without affinity,
\* built with the sub-scope, while the root still holds the one built with
\* the root.
C38_Witness ==
    \E i, j \in 1..Len(hist) :
        /\ i < j
        /\ hist[i].op = "getServices" /\ Resolved(i)
        /\ hist[j].op = "getServices" /\ Resolved(j)
        /\ hist[i].name = hist[j].name
        /\ Above(hist[i].scope, hist[j].scope)
        /\ hist[i].cls[1] = DescV("S") /\ hist[j].cls[1] = DescV("S")
        /\ hist[i].res[1] # hist[j].res[1]
        /\ heap[hist[i].res[1].n].args[1] = ScopeV(hist[i].scope)
        /\ heap[hist[j].res[1].n].args[1] = ScopeV(hist[j].scope)
        /\ Cached(hist[i].scope, hist[i].name, 1) = hist[i].res[1]
        /\ Cached(hist[j].scope, hist[j].name, 1) = hist[j].res[1]

---------------------------------------------------------------------------
(* C39 *)

\* c is a plain object or a static function, kept in the cache, with
\* properties to inject
SharedStatic(c) ==
    /\ StaticDescriptor(c)
    /\ ~IsTransient(c)
    /\ InjectProperties(c) # <<>>

\* the positions of the call at which the scope resolves c for the first
\* time: the slot of its cache is empty
FirstResolutions(called, c) ==
    {p \in 1..Len(called.cls) :
        /\ called.cls[p] = c
        /\ ~Truthy(Cached(called.scope, called.name, called.at + p - 1))}

\* C39: a static descriptor with injectProperties is one object shared by
\* all scopes.  Every scope that resolves it gets the descriptor itself; a
\* scope injects its properties when it resolves it for the first time, its
\* cache slot being empty, and the properties then carry what that scope
\* holds for their service names, whatever another scope had injected; a
\* scope that finds it in its cache leaves the properties as they are; and
\* no other step changes them.  So what is read through one scope is what
\* the scope that resolved it first most lately has injected.
C39_StaticSharedAcrossScopes ==
    [][ LET called == JustCalled(hist')
            resolves == /\ Len(hist') = Len(hist) + 1
                        /\ called.op \in {"require", "getServices"}
                        /\ called.ex = NoEx
        IN /\ resolves =>
                \A p \in 1..Len(called.cls) :
                    LET c == called.cls[p]
                        ips == InjectProperties(c)
                    IN SharedStatic(c) =>
                        /\ called.res[p] = c
                        /\ scopes'[called.scope].instances[called.name].slots[called.at + p - 1] = c
                        /\ IF FirstResolutions(called, c) = {}
                           THEN sprops'[c.d] = sprops[c.d]
                           ELSE \A e \in 1..Len(ips) : \A sc \in ScopeIds :
                                  called.scope = sc =>
                                    LET v == sprops'[c.d][ips[e][1]]
                                    IN /\ InjectedFor(v, sc, ips[e][2], Len(heap))
                                       /\ v.k = "inst" => heap'[v.n].scope = sc
           /\ \A d \in Descs :
                sprops'[d] # sprops[d] =>
                    /\ resolves
                    /\ FirstResolutions(called, DescV(d)) # {} ]_vars

\* Two scopes made under the root, neither above the other, have each
\* resolved the plain object: both got the same object, and its property,
\* which carried the first scope's singleton after the first resolution,
\* now carries the singleton built for the second scope, held in the second
\* scope's cache, not the first scope's.
C39_Witness ==
    \E i, j \in 1..Len(hist) :
        /\ i < j
        /\ hist[i].op = "getServices" /\ Resolved(i)
        /\ hist[j].op = "getServices" /\ Resolved(j)
        /\ Unrelated(hist[i].scope, hist[j].scope)
        /\ hist[i].res = <<DescV("P")>> /\ hist[j].res = <<DescV("P")>>
        /\ LET observed == sprops["P"]["dep"]
               mine == Cached(hist[i].scope, "b", 1)
               theirs == Cached(hist[j].scope, "b", 1)
           IN /\ mine.k = "inst" /\ theirs.k = "inst" /\ mine # theirs
              /\ heap[mine.n].scope = hist[i].scope
              /\ heap[theirs.n].scope = hist[j].scope
              /\ observed = theirs

---------------------------------------------------------------------------
(* C40 *)

\* the scope on which require(name) on s passes the service class listed
\* last to construct, NoScope when it constructs nothing: nothing is
\* listed, the scope-affinity error is raised, or, the cache being looked
\* at, the singleton is found in the slot of s or of the owner
BuildsOn(s, name, cached) ==
    LET L == Listed(s, name)
        c == L[Len(L)]
        t == Owner(c, s)
        at == IndexOf(Listed(t, name), c)
    IN IF L = <<>> THEN NoScope
       ELSE IF ~Truthy(c) THEN NoScope
       ELSE IF IsTransient(c) THEN s
       ELSE IF cached /\ Truthy(Cached(s, name, Len(L))) THEN NoScope
       ELSE IF Affinity(c) = "" THEN s
       ELSE IF t = NoScope THEN NoScope
       ELSE IF t = s THEN s
       ELSE IF at = 0 THEN NoScope
       ELSE IF cached /\ Truthy(Cached(t, name, at)) THEN NoScope
       ELSE t

\* the service names construct requires for c: its inject list when it is
\* constructed with new, and its injectProperties
Dependencies(c) ==
    {InjectList(c)[k] : k \in {x \in 1..Len(InjectList(c)) :
                                  Constructible(c) /\ HasInject(c)}}
    \cup {InjectProperties(c)[e][2] : e \in 1..Len(InjectProperties(c))}

\* the requires that the require of node <<scope, name>> makes
Requires(node, cached) ==
    LET t == BuildsOn(node[1], node[2], cached)
        L == Listed(node[1], node[2])
    IN IF t = NoScope THEN {}
       ELSE {<<t, dependency>> : dependency \in Dependencies(L[Len(L)])}

\* the nodes reached from the nodes of S
RECURSIVE Closure(_, _)
Closure(S, cached) ==
    LET T == S \cup UNION {Requires(node, cached) : node \in S}
    IN IF T = S THEN S ELSE Closure(T, cached)

\* a dependency cycle is reachable from what require(name) on s resolves
CycleAhead(s, name, cached) ==
    \E node \in Closure({<<s, name>>}, cached) :
        node \in Closure(Requires(node, cached), cached)

\* the call stack was exhausted
Endless(called) == called.ex = RangeError

===========================================================================
